---- MODULE Spec2Model ----
(***************************************************************************)
(* pyapple-mcp: the AppleScript runner, the handlers of the macOS apps     *)
(* (Contacts, Notes, Messages, Mail, Calendar, Maps) and the tool layer    *)
(* of server.py that calls them.                                           *)
(*                                                                         *)
(* A text is a sequence of tokens.  Every character the code inspects is a *)
(* token of its own: the double quote, the backslash, the two delimiters   *)
(* "|" and ";", white space and the letters of the prefixes "Error:" and   *)
(* "Success:".  A literal of the source that the code only concatenates is *)
(* one token.  Python's None is the value None below; formatting it into   *)
(* an f-string gives the text "None".                                      *)
(***************************************************************************)
EXTENDS Integers, Sequences, FiniteSets, TLC

VARIABLES
    pc,         \* position of the one call in flight
    call,       \* the call: how it was made, handler operation, arguments
    child,      \* state of the child process of the current run_script
    elapsed,    \* seconds the current child has been running
    children,   \* final state of every child process this call has left
    runResult,  \* what the last run_script returned
    payload,    \* the script handed to run_script by the handler
    runCalls,   \* run_script calls made by the handler's own code
    probeCalls, \* run_script calls made by check_app_access
    handlerCalls, \* handler methods called by the tool layer
    ret,        \* value the handler returned
    reply,      \* reply of the tool
    log,        \* logger.error records of the call
    access,     \* what check_app_access returned to the handler
    records,    \* the records the application's script joins into its output
    loop,       \* the event loop asyncio has for the calling thread
    backend,    \* what the search backend and the result pages answer
    web,        \* the web search in flight: links done, results so far
    disk        \* the config files of Claude Desktop and whether they can be written

vars == <<pc, call, child, elapsed, children, runResult, payload, runCalls,
          probeCalls, handlerCalls, ret, reply, log, access, records,
          loop, backend, web, disk>>

\* the state of WebSearchHandler.search_web and of asyncio
webVars == <<loop, backend, web>>

----------------------------------------------------------------------------
(* Texts *)

None == <<"<None>">>

NoneText == <<"None">>

Quote == "\""

Backslash == "\\"

FieldSep == <<"|">>

RecordSep == <<";">>

Whitespace == {" ", "\n", "\t"}

ErrorPrefix == <<"E", "r", "r", "o", "r", ":">>

SuccessPrefix == <<"S", "u", "c", "c", "e", "s", "s", ":">>

SuccessSpace == SuccessPrefix \o <<" ">>

\* bool(x) of a str or None
Truthy(x) == x # None /\ x # <<>>

\* f"{x}"
Fmt(x) == IF x = None THEN NoneText ELSE x

\* str.startswith
StartsWith(s, p) == Len(s) >= Len(p) /\ SubSeq(s, 1, Len(p)) = p

RECURSIVE LStrip(_)
LStrip(s) == IF s # <<>> /\ Head(s) \in Whitespace THEN LStrip(Tail(s)) ELSE s

RECURSIVE RStrip(_)
RStrip(s) == IF s # <<>> /\ s[Len(s)] \in Whitespace
             THEN RStrip(SubSeq(s, 1, Len(s) - 1)) ELSE s

\* str.strip
Strip(s) == RStrip(LStrip(s))

\* str.replace(old, new), old not empty
RECURSIVE Replace(_, _, _)
Replace(s, old, new) ==
    IF s = <<>> THEN <<>>
    ELSE IF StartsWith(s, old)
         THEN new \o Replace(SubSeq(s, Len(old) + 1, Len(s)), old, new)
         ELSE <<Head(s)>> \o Replace(Tail(s), old, new)

\* sub in s
Contains(s, sub) == \E i \in 1..(Len(s) - Len(sub) + 1) : SubSeq(s, i, i + Len(sub) - 1) = sub

\* s.find(sub) + 1, for a sub that s contains
FirstIndex(s, sub) ==
    CHOOSE i \in 1..(Len(s) - Len(sub) + 1) :
        /\ SubSeq(s, i, i + Len(sub) - 1) = sub
        /\ \A j \in 1..(i - 1) : SubSeq(s, j, j + Len(sub) - 1) # sub

\* str.split(sep, maxsplit)
RECURSIVE SplitN(_, _, _)
SplitN(s, sep, n) ==
    IF n = 0 \/ ~Contains(s, sep) THEN <<s>>
    ELSE LET i == FirstIndex(s, sep)
         IN  <<SubSeq(s, 1, i - 1)>> \o SplitN(SubSeq(s, i + Len(sep), Len(s)), sep, n - 1)

\* str.split(sep)
Split(s, sep) == SplitN(s, sep, Len(s))

\* sep.join(parts)
RECURSIVE Join(_, _)
Join(parts, sep) ==
    IF parts = <<>> THEN <<>>
    ELSE IF Len(parts) = 1 THEN parts[1]
    ELSE parts[1] \o sep \o Join(Tail(parts), sep)

\* x.replace('"', '\\"')
EscapeQuotes(s) == Replace(s, <<Quote>>, <<Backslash, Quote>>)

----------------------------------------------------------------------------
(* Inputs *)

\* a caller's free text: empty, plain, a quote, a quote after a backslash
ReqText == {<<>>, <<"a">>, <<Quote>>, <<Backslash, Quote>>}

\* further required texts of a call
MoreText == {<<>>, <<"a", Quote>>}

\* an Optional[str] argument
OptText == {None, <<"a", Quote>>}

\* what the tool layer can be handed for a required parameter
ToolText == {None, <<>>, <<"a">>}

Outcome(r, l) == [ret |-> r, log |-> l]

ListRet(items) == [kind |-> "list", items |-> items]

DictRet(items) == [kind |-> "dict", items |-> items]

IntRet(n) == [kind |-> "int", value |-> n]

StatusRet(ok, msg) == [kind |-> "status", success |-> ok, message |-> msg]

NoRet == [kind |-> "none"]

\* the test of result['success'] alone
HasOutputSuccessOnly(res) == res.success

\* result['success'] and result['result']
HasOutput(res) == res.success /\ Truthy(res.result)

\* a decoder that splits a chunk at every "|"
DecodeChunksUnbounded(data, n) ==
    LET chunks == SelectSeq(Split(data, RecordSep), LAMBDA e : Contains(e, FieldSep))
        parts  == [i \in 1..Len(chunks) |-> Split(chunks[i], FieldSep)]
    IN  SelectSeq(parts, LAMBDA q : Len(q) >= n)

\* a decoder that wants more fields than the record has
DecodeChunksStrict(data, n) ==
    LET chunks == SelectSeq(Split(data, RecordSep), LAMBDA e : Contains(e, FieldSep))
        parts  == [i \in 1..Len(chunks) |-> SplitN(chunks[i], FieldSep, n - 1)]
    IN  SelectSeq(parts, LAMBDA q : Len(q) > n)

\* for entry in data.split(";"): if "|" in entry: parts = entry.split("|", n - 1);
\* if len(parts) >= n: ...
DecodeChunks(data, n) ==
    LET chunks == SelectSeq(Split(data, RecordSep), LAMBDA e : Contains(e, FieldSep))
        parts  == [i \in 1..Len(chunks) |-> SplitN(chunks[i], FieldSep, n - 1)]
    IN  SelectSeq(parts, LAMBDA q : Len(q) >= n)

----------------------------------------------------------------------------
(* ContactsHandler *)

ContactsOps == {"find_number", "get_all_numbers"}

ContactsArgs(op) ==
    CASE op = "find_number"     -> [name : ReqText]
      [] op = "get_all_numbers" -> {<<>>}

\* the quoted literals of the script that hold a parameter, in script order
ContactsScript(op, a) ==
    CASE op = "find_number"     -> <<[param |-> "name", text |-> a.name]>>
      [] op = "get_all_numbers" -> <<>>

ContactsDenied(op) ==
    CASE op = "find_number"     -> Outcome(ListRet(<<>>), <<<<"Cannot access Contacts app">>>>)
      [] op = "get_all_numbers" -> Outcome(DictRet(<<>>), <<<<"Cannot access Contacts app">>>>)

\* contacts_dict[name] = phone_list
DictPut(d, k, v) ==
    IF \E i \in 1..Len(d) : d[i].key = k
    THEN [i \in 1..Len(d) |-> IF d[i].key = k THEN [key |-> k, value |-> v] ELSE d[i]]
    ELSE Append(d, [key |-> k, value |-> v])

RECURSIVE ContactsDict(_, _)
ContactsDict(entries, d) ==
    IF entries = <<>> THEN d
    ELSE LET e == Head(entries)
         IN  IF Contains(e, <<":">>)
             THEN LET kv == SplitN(e, <<":">>, 1)
                      phones == IF kv[2] # <<>> THEN Split(kv[2], FieldSep) ELSE <<>>
                  IN  ContactsDict(Tail(entries), DictPut(d, kv[1], phones))
             ELSE ContactsDict(Tail(entries), d)

ContactsParse(op, a, res) ==
    CASE op = "find_number" ->
           IF HasOutput(res)
           THEN IF StartsWith(res.result, ErrorPrefix)
                THEN Outcome(ListRet(<<>>), <<<<"Contacts error: ">> \o res.result>>)
                ELSE LET items == SelectSeq(Split(res.result, <<",", " ">>),
                                            LAMBDA e : Contains(e, <<":", " ">>))
                     IN  Outcome(ListRet([i \in 1..Len(items) |->
                                            SplitN(items[i], <<":", " ">>, 1)[2]]), <<>>)
           ELSE Outcome(ListRet(<<>>), <<<<"Failed to search contacts: ">> \o Fmt(res.error)>>)
      [] op = "get_all_numbers" ->
           IF HasOutput(res)
           THEN IF StartsWith(res.result, ErrorPrefix)
                THEN Outcome(DictRet(<<>>), <<<<"Contacts error: ">> \o res.result>>)
                ELSE Outcome(DictRet(ContactsDict(Split(res.result, RecordSep), <<>>)), <<>>)
           ELSE Outcome(DictRet(<<>>), <<<<"Failed to get all contacts: ">> \o Fmt(res.error)>>)

----------------------------------------------------------------------------
(* NotesHandler *)

NotesOps == {"search_notes", "list_notes", "create_note"}

NotesArgs(op) ==
    CASE op = "search_notes" -> [search_text : ReqText]
      [] op = "list_notes"   -> {<<>>}
      [] op = "create_note"  -> [title : ReqText, body : MoreText,
                                 folder_name : {<<"Claude">>, <<Quote>>}]

NotesScript(op, a) ==
    CASE op = "search_notes" -> <<[param |-> "search_text", text |-> a.search_text]>>
      [] op = "list_notes"   -> <<>>
      [] op = "create_note"  ->
           <<[param |-> "folder_name", text |-> EscapeQuotes(a.folder_name)],
             [param |-> "folder_name", text |-> EscapeQuotes(a.folder_name)],
             [param |-> "title", text |-> EscapeQuotes(a.title)],
             [param |-> "body", text |-> EscapeQuotes(a.body)]>>

NotesDenied(op) ==
    CASE op \in {"search_notes", "list_notes"} ->
           Outcome(ListRet(<<>>), <<<<"Cannot access Notes app">>>>)
      [] op = "create_note" ->
           Outcome(StatusRet(FALSE, <<"Cannot access Notes app">>),
                   <<<<"Cannot access Notes app">>>>)

\* title, content = note_entry.split("|", 1)
NoteEntity(parts) == [title |-> parts[1], content |-> parts[2]]

NotesDecode(data) ==
    LET recs == DecodeChunks(data, 2)
    IN  [i \in 1..Len(recs) |-> NoteEntity(recs[i])]

\* search_notes and list_notes without the test for "Error:"
NotesParseUnchecked(op, a, res) ==
    CASE op \in {"search_notes", "list_notes"} ->
           IF HasOutput(res)
           THEN Outcome(ListRet(NotesDecode(res.result)), <<>>)
           ELSE Outcome(ListRet(<<>>),
                        <<(IF op = "search_notes" THEN <<"Failed to search notes: ">>
                           ELSE <<"Failed to list notes: ">>) \o Fmt(res.error)>>)
      [] op = "create_note" ->
           IF HasOutput(res)
           THEN IF StartsWith(res.result, SuccessPrefix)
                THEN Outcome(StatusRet(TRUE, <<"Note created successfully">>), <<>>)
                ELSE Outcome(StatusRet(FALSE, res.result),
                             <<<<"Notes creation error: ">> \o res.result>>)
           ELSE Outcome(StatusRet(FALSE, <<"Failed to create note: ">> \o Fmt(res.error)),
                        <<<<"Failed to create note: ">> \o Fmt(res.error)>>)

NotesParse(op, a, res) ==
    CASE op \in {"search_notes", "list_notes"} ->
           IF HasOutput(res)
           THEN IF StartsWith(res.result, ErrorPrefix)
                THEN Outcome(ListRet(<<>>), <<<<"Notes error: ">> \o res.result>>)
                ELSE Outcome(ListRet(NotesDecode(res.result)), <<>>)
           ELSE Outcome(ListRet(<<>>),
                        <<(IF op = "search_notes" THEN <<"Failed to search notes: ">>
                           ELSE <<"Failed to list notes: ">>) \o Fmt(res.error)>>)
      [] op = "create_note" ->
           IF HasOutput(res)
           THEN IF StartsWith(res.result, SuccessPrefix)
                THEN Outcome(StatusRet(TRUE, <<"Note created successfully">>), <<>>)
                ELSE Outcome(StatusRet(FALSE, res.result),
                             <<<<"Notes creation error: ">> \o res.result>>)
           ELSE Outcome(StatusRet(FALSE, <<"Failed to create note: ">> \o Fmt(res.error)),
                        <<<<"Failed to create note: ">> \o Fmt(res.error)>>)

----------------------------------------------------------------------------
(* MessagesHandler *)

MessagesOps == {"send_message", "read_messages", "schedule_message", "get_unread_count"}

MessagesArgs(op) ==
    CASE op = "send_message"     -> [phone_number : ReqText, message : MoreText]
      [] op = "read_messages"    -> [phone_number : ReqText]
      [] op = "schedule_message" -> [phone_number : ReqText, message : MoreText,
                                     scheduled_time : MoreText]
      [] op = "get_unread_count" -> {<<>>}

MessagesScript(op, a) ==
    CASE op = "send_message" ->
           <<[param |-> "phone_number", text |-> EscapeQuotes(a.phone_number)],
             [param |-> "message", text |-> EscapeQuotes(a.message)]>>
      [] op = "read_messages" -> <<[param |-> "phone_number", text |-> a.phone_number]>>
      [] op = "get_unread_count" -> <<>>

MessagesDenied(op) ==
    CASE op = "send_message" ->
           Outcome(StatusRet(FALSE, <<"Cannot access Messages app">>),
                   <<<<"Cannot access Messages app">>>>)
      [] op = "read_messages" ->
           Outcome(ListRet(<<>>), <<<<"Cannot access Messages app">>>>)
      [] op = "get_unread_count" ->
           Outcome(IntRet(0), <<<<"Cannot access Messages app">>>>)

\* operations that return without check_app_access and without a script
MessagesStub(op, a) ==
    CASE op = "schedule_message" ->
           Outcome(StatusRet(FALSE, <<"Message scheduling is not natively supported by Apple Messages. Consider using a third-party automation tool.">>), <<>>)

\* sender, content, time_str = parts
MessageEntity(parts) == [sender |-> parts[1], content |-> parts[2], time |-> parts[3]]

MessagesDecode(data) ==
    LET recs == DecodeChunks(data, 3)
    IN  [i \in 1..Len(recs) |-> MessageEntity(recs[i])]

Digits == {"0", "1", "2", "3", "4", "5", "6", "7", "8", "9"}

DigitValue(d) ==
    CASE d = "0" -> 0 [] d = "1" -> 1 [] d = "2" -> 2 [] d = "3" -> 3 [] d = "4" -> 4
      [] d = "5" -> 5 [] d = "6" -> 6 [] d = "7" -> 7 [] d = "8" -> 8 [] d = "9" -> 9

\* int(s) raises ValueError unless s is an optionally signed run of digits
IsInt(s) ==
    LET d == IF s # <<>> /\ Head(s) \in {"+", "-"} THEN Tail(s) ELSE s
    IN  d # <<>> /\ \A i \in 1..Len(d) : d[i] \in Digits

RECURSIVE Unsigned(_)
Unsigned(d) == IF d = <<>> THEN 0
               ELSE 10 * Unsigned(SubSeq(d, 1, Len(d) - 1)) + DigitValue(d[Len(d)])

ToInt(s) == IF Head(s) = "-" THEN 0 - Unsigned(Tail(s))
            ELSE IF Head(s) = "+" THEN Unsigned(Tail(s)) ELSE Unsigned(s)

\* get_unread_count without its except ValueError
MessagesParseUncaught(op, a, res) ==
    CASE op = "send_message" ->
           IF HasOutput(res)
           THEN IF StartsWith(res.result, SuccessPrefix)
                THEN Outcome(StatusRet(TRUE, <<"Message sent successfully">>), <<>>)
                ELSE Outcome(StatusRet(FALSE, res.result),
                             <<<<"Messages send error: ">> \o res.result>>)
           ELSE Outcome(StatusRet(FALSE, <<"Failed to send message: ">> \o Fmt(res.error)),
                        <<<<"Failed to send message: ">> \o Fmt(res.error)>>)
      [] op = "read_messages" ->
           IF HasOutput(res)
           THEN IF StartsWith(res.result, ErrorPrefix)
                THEN Outcome(ListRet(<<>>), <<<<"Messages read error: ">> \o res.result>>)
                ELSE Outcome(ListRet(MessagesDecode(res.result)), <<>>)
           ELSE Outcome(ListRet(<<>>), <<<<"Failed to read messages: ">> \o Fmt(res.error)>>)
      [] op = "get_unread_count" ->
           IF HasOutput(res)
           THEN IF StartsWith(res.result, ErrorPrefix)
                THEN Outcome(IntRet(0), <<<<"Messages unread count error: ">> \o res.result>>)
                ELSE IF IsInt(res.result)
                     THEN Outcome(IntRet(ToInt(res.result)), <<>>)
                     ELSE Outcome([kind |-> "raised", exc |-> "ValueError"], <<>>)
           ELSE Outcome(IntRet(0), <<<<"Failed to get unread count: ">> \o Fmt(res.error)>>)

MessagesParse(op, a, res) ==
    CASE op = "send_message" ->
           IF HasOutput(res)
           THEN IF StartsWith(res.result, SuccessPrefix)
                THEN Outcome(StatusRet(TRUE, <<"Message sent successfully">>), <<>>)
                ELSE Outcome(StatusRet(FALSE, res.result),
                             <<<<"Messages send error: ">> \o res.result>>)
           ELSE Outcome(StatusRet(FALSE, <<"Failed to send message: ">> \o Fmt(res.error)),
                        <<<<"Failed to send message: ">> \o Fmt(res.error)>>)
      [] op = "read_messages" ->
           IF HasOutput(res)
           THEN IF StartsWith(res.result, ErrorPrefix)
                THEN Outcome(ListRet(<<>>), <<<<"Messages read error: ">> \o res.result>>)
                ELSE Outcome(ListRet(MessagesDecode(res.result)), <<>>)
           ELSE Outcome(ListRet(<<>>), <<<<"Failed to read messages: ">> \o Fmt(res.error)>>)
      [] op = "get_unread_count" ->
           IF HasOutput(res)
           THEN IF StartsWith(res.result, ErrorPrefix)
                THEN Outcome(IntRet(0), <<<<"Messages unread count error: ">> \o res.result>>)
                ELSE IF IsInt(res.result)
                     THEN Outcome(IntRet(ToInt(res.result)), <<>>)
                     ELSE Outcome(IntRet(0), <<<<"Invalid unread count: ">> \o res.result>>)
           ELSE Outcome(IntRet(0), <<<<"Failed to get unread count: ">> \o Fmt(res.error)>>)

----------------------------------------------------------------------------
(* MailHandler *)

MailOps == {"get_unread_emails", "search_emails", "send_email", "list_mailboxes",
            "list_accounts"}

\* account and mailbox as the tool passes them on: None, empty or a name
OptName == {None, <<>>, <<"a", Quote>>}

MailArgs(op) ==
    CASE op = "get_unread_emails" -> [account : OptName, mailbox : OptName]
      [] op = "search_emails"     -> [search_term : ReqText, account : OptName,
                                      mailbox : OptName]
      [] op = "send_email"        -> [to : ReqText, subject : MoreText, body : MoreText,
                                      cc : OptText, bcc : OptText]
      [] op = "list_mailboxes"    -> [account : OptName]
      [] op = "list_accounts"     -> {<<>>}

Lit(p, t) == [param |-> p, text |-> t]

\* target_clause of get_unread_emails
UnreadTarget(a) ==
    IF Truthy(a.account) /\ Truthy(a.mailbox)
    THEN <<Lit("mailbox", a.mailbox), Lit("account", a.account)>>
    ELSE IF Truthy(a.account) THEN <<Lit("account", a.account)>>
    ELSE IF Truthy(a.mailbox) THEN <<Lit("mailbox", a.mailbox)>>
    ELSE <<>>

\* target_clause of search_emails
SearchTarget(a) ==
    IF Truthy(a.account) /\ Truthy(a.mailbox)
    THEN <<Lit("mailbox", a.mailbox), Lit("account", a.account)>>
    ELSE IF Truthy(a.account) THEN <<Lit("account", a.account)>>
    ELSE <<>>

\* target_clause of list_mailboxes
MailboxesTarget(a) == IF Truthy(a.account) THEN <<Lit("account", a.account)>> ELSE <<>>

MailScript(op, a) ==
    CASE op = "get_unread_emails" -> UnreadTarget(a)
      [] op = "search_emails" ->
           <<Lit("search_term", a.search_term),
             Lit("account", Fmt(a.account)), Lit("mailbox", Fmt(a.mailbox))>>
           \o SearchTarget(a) \o <<Lit("account", Fmt(a.account))>> \o SearchTarget(a)
      [] op = "send_email" ->
           <<Lit("subject", EscapeQuotes(a.subject)), Lit("body", EscapeQuotes(a.body)),
             Lit("to", EscapeQuotes(a.to))>>
           \o (IF Truthy(a.cc) THEN <<Lit("cc", EscapeQuotes(a.cc))>> ELSE <<>>)
           \o (IF Truthy(a.bcc) THEN <<Lit("bcc", EscapeQuotes(a.bcc))>> ELSE <<>>)
      [] op = "list_mailboxes" -> <<Lit("account", Fmt(a.account))>> \o MailboxesTarget(a)
      [] op = "list_accounts" -> <<>>

MailDenied(op) ==
    CASE op = "send_email" ->
           Outcome(StatusRet(FALSE, <<"Cannot access Mail app">>),
                   <<<<"Cannot access Mail app">>>>)
      [] OTHER -> Outcome(ListRet(<<>>), <<<<"Cannot access Mail app">>>>)

ContentPreview == 200

\* content[:200] + "..." if len(content) > 200 else content
Preview(content) ==
    IF Len(content) > ContentPreview
    THEN SubSeq(content, 1, ContentPreview) \o <<"...">> ELSE content

\* sender, subject, date_str, content = parts
EmailEntity(parts) ==
    [sender |-> parts[1], subject |-> parts[2], date |-> parts[3],
     content |-> Preview(parts[4])]

\* a decoder that gives up at the first chunk that is short of fields
MailDecodeUntilShort(data) ==
    LET chunks == Split(data, RecordSep)
        full(e) == Contains(e, FieldSep) /\ Len(SplitN(e, FieldSep, 3)) >= 4
        stop == IF \E i \in 1..Len(chunks) : ~full(chunks[i])
                THEN (CHOOSE i \in 1..Len(chunks) :
                         ~full(chunks[i]) /\ \A j \in 1..(i - 1) : full(chunks[j])) - 1
                ELSE Len(chunks)
    IN  [i \in 1..stop |-> EmailEntity(SplitN(chunks[i], FieldSep, 3))]

MailDecode(data) ==
    LET recs == DecodeChunks(data, 4)
    IN  [i \in 1..Len(recs) |-> EmailEntity(recs[i])]

MailFailed(op) ==
    CASE op = "get_unread_emails" -> <<"Failed to get unread emails: ">>
      [] op = "search_emails"     -> <<"Failed to search emails: ">>
      [] op = "send_email"        -> <<"Failed to send email: ">>
      [] op = "list_mailboxes"    -> <<"Failed to list mailboxes: ">>
      [] op = "list_accounts"     -> <<"Failed to list accounts: ">>

MailErrorTag(op) ==
    CASE op = "get_unread_emails" -> <<"Mail error: ">>
      [] op = "search_emails"     -> <<"Mail search error: ">>
      [] op = "send_email"        -> <<"Mail send error: ">>
      [] op = "list_mailboxes"    -> <<"Mail mailboxes error: ">>
      [] op = "list_accounts"     -> <<"Mail accounts error: ">>

\* send_email that keeps the error of run_script to itself
MailParseErrorDropped(op, a, res) ==
    IF ~HasOutput(res)
    THEN IF op = "send_email"
         THEN Outcome(StatusRet(FALSE, MailFailed(op)), <<MailFailed(op) \o Fmt(res.error)>>)
         ELSE Outcome(ListRet(<<>>), <<MailFailed(op) \o Fmt(res.error)>>)
    ELSE CASE op = "send_email" ->
                IF StartsWith(res.result, SuccessPrefix)
                THEN Outcome(StatusRet(TRUE, <<"Email sent successfully">>), <<>>)
                ELSE Outcome(StatusRet(FALSE, res.result), <<MailErrorTag(op) \o res.result>>)
           [] op \in {"get_unread_emails", "search_emails"} ->
                IF StartsWith(res.result, ErrorPrefix)
                THEN Outcome(ListRet(<<>>), <<MailErrorTag(op) \o res.result>>)
                ELSE Outcome(ListRet(MailDecode(res.result)), <<>>)
           [] op \in {"list_mailboxes", "list_accounts"} ->
                IF StartsWith(res.result, ErrorPrefix)
                THEN Outcome(ListRet(<<>>), <<MailErrorTag(op) \o res.result>>)
                ELSE Outcome(ListRet(Split(res.result, <<",", " ">>)), <<>>)

MailParse(op, a, res) ==
    IF ~HasOutput(res)
    THEN IF op = "send_email"
         THEN Outcome(StatusRet(FALSE, MailFailed(op) \o Fmt(res.error)),
                      <<MailFailed(op) \o Fmt(res.error)>>)
         ELSE Outcome(ListRet(<<>>), <<MailFailed(op) \o Fmt(res.error)>>)
    ELSE CASE op = "send_email" ->
                IF StartsWith(res.result, SuccessPrefix)
                THEN Outcome(StatusRet(TRUE, <<"Email sent successfully">>), <<>>)
                ELSE Outcome(StatusRet(FALSE, res.result), <<MailErrorTag(op) \o res.result>>)
           [] op \in {"get_unread_emails", "search_emails"} ->
                IF StartsWith(res.result, ErrorPrefix)
                THEN Outcome(ListRet(<<>>), <<MailErrorTag(op) \o res.result>>)
                ELSE Outcome(ListRet(MailDecode(res.result)), <<>>)
           [] op \in {"list_mailboxes", "list_accounts"} ->
                IF StartsWith(res.result, ErrorPrefix)
                THEN Outcome(ListRet(<<>>), <<MailErrorTag(op) \o res.result>>)
                ELSE Outcome(ListRet(Split(res.result, <<",", " ">>)), <<>>)

----------------------------------------------------------------------------
(* CalendarHandler *)

CalendarOps == {"search_events", "get_events", "create_event", "open_event"}

Jan05 == <<"2", "0", "2", "5", "-", "0", "1", "-", "0", "5">>

Jan09 == <<"2", "0", "2", "5", "-", "0", "1", "-", "0", "9">>

NotADate == <<"s", "o", "o", "n">>

Mar01 == <<"2", "0", "2", "5", "-", "0", "3", "-", "0", "1">>

\* from_date and to_date of a search: omitted, empty, a date, not a date
OptDate == {None, <<>>, Jan05, NotADate}

\* from_date of a search: also a day after the default ends of the windows
FromDates == OptDate \cup {Mar01}

\* start_date and end_date of a new event
EventDate == {<<>>, Jan05 \o <<"T", "1", "0", ":", "3", "0">>, Jan09, NotADate}

CalendarArgs(op) ==
    CASE op = "search_events" -> [search_text : ReqText, from_date : FromDates,
                                  to_date : {None, Jan09, NotADate}]
      [] op = "get_events"    -> [from_date : FromDates, to_date : OptDate \cup {Jan09}]
      [] op = "create_event"  -> [title : ReqText, start_date : EventDate,
                                  end_date : {Jan09, NotADate},
                                  location : OptText, notes : {None, <<>>},
                                  is_all_day : {FALSE}, calendar_name : OptText]
      [] op = "open_event"    -> [event_id : ReqText]

AllDigits(s) == \A i \in 1..Len(s) : s[i] \in Digits

DaysInMonth(y, m) ==
    IF m = 2 THEN (IF (y % 4 = 0 /\ y % 100 # 0) \/ y % 400 = 0 THEN 29 ELSE 28)
    ELSE IF m \in {4, 6, 9, 11} THEN 30 ELSE 31

\* date.fromisoformat accepts s: YYYY-MM-DD naming a day of the calendar
IsIsoDate(s) ==
    /\ Len(s) = 10
    /\ s[5] = "-" /\ s[8] = "-"
    /\ AllDigits(SubSeq(s, 1, 4)) /\ AllDigits(SubSeq(s, 6, 7)) /\ AllDigits(SubSeq(s, 9, 10))
    /\ LET y == Unsigned(SubSeq(s, 1, 4))
           m == Unsigned(SubSeq(s, 6, 7))
           d == Unsigned(SubSeq(s, 9, 10))
       IN  y >= 1 /\ m \in 1..12 /\ d \in 1..DaysInMonth(y, m)

\* HH:MM or HH:MM:SS
IsIsoTime(t) ==
    /\ Len(t) \in {5, 8}
    /\ AllDigits(SubSeq(t, 1, 2)) /\ t[3] = ":" /\ AllDigits(SubSeq(t, 4, 5))
    /\ Unsigned(SubSeq(t, 1, 2)) < 24 /\ Unsigned(SubSeq(t, 4, 5)) < 60
    /\ Len(t) = 8 => (t[6] = ":" /\ AllDigits(SubSeq(t, 7, 8)) /\ Unsigned(SubSeq(t, 7, 8)) < 60)

UtcOffset == <<"+", "0", "0", ":", "0", "0">>

\* datetime.fromisoformat accepts s: a date, then nothing or a separator and a time,
\* then nothing or the offset +00:00
IsIsoDateTime(s) ==
    /\ Len(s) >= 10
    /\ IsIsoDate(SubSeq(s, 1, 10))
    /\ LET rest == SubSeq(s, 11, Len(s))
           body == IF Len(rest) >= 6 /\ SubSeq(rest, Len(rest) - 5, Len(rest)) = UtcOffset
                   THEN SubSeq(rest, 1, Len(rest) - 6) ELSE rest
       IN  rest = <<>> \/ (body # <<>> /\ IsIsoTime(Tail(body)))

\* s[:10]
First10(s) == SubSeq(s, 1, IF Len(s) < 10 THEN Len(s) ELSE 10)

\* datetime.now().isoformat(), the day the call is made
Today == Jan05 \o <<"T", "0", "9", ":", "0", "0", ":", "0", "0">>

FromDate(a) == IF Truthy(a.from_date) THEN a.from_date ELSE Today

\* the to_date default is Today plus 30 days (search_events) or 1 day (get_events)
WindowDatesParse(a) ==
    /\ IsIsoDate(First10(FromDate(a)))
    /\ Truthy(a.to_date) => IsIsoDate(First10(a.to_date))

\* year, month and day of a text that date.fromisoformat accepts
YMD(s) == <<Unsigned(SubSeq(s, 1, 4)), Unsigned(SubSeq(s, 6, 7)), Unsigned(SubSeq(s, 9, 10))>>

\* d + timedelta(days=1)
NextDay(d) ==
    IF d[3] < DaysInMonth(d[1], d[2]) THEN <<d[1], d[2], d[3] + 1>>
    ELSE IF d[2] < 12 THEN <<d[1], d[2] + 1, 1>>
    ELSE <<d[1] + 1, 1, 1>>

\* d + timedelta(days=n)
RECURSIVE AddDays(_, _)
AddDays(d, n) == IF n = 0 THEN d ELSE AddDays(NextDay(d), n - 1)

DigitOf(n) == CHOOSE c \in Digits : DigitValue(c) = n

\* n in w digits, zero padded
RECURSIVE Pad(_, _)
Pad(n, w) == IF w = 0 THEN <<>> ELSE Pad(n \div 10, w - 1) \o <<DigitOf(n % 10)>>

\* the first ten characters of d.isoformat()
IsoDate(d) == Pad(d[1], 4) \o <<"-">> \o Pad(d[2], 2) \o <<"-">> \o Pad(d[3], 2)

\* d.strftime("%m/%d/%Y")
Strftime(d) == Pad(d[2], 2) \o <<"/">> \o Pad(d[3], 2) \o <<"/">> \o Pad(d[1], 4)

\* a window of a week for every operation
WindowDaysWeek(op) == 7

\* timedelta(days=30) of search_events, timedelta(days=1) of get_events
WindowDays(op) == IF op = "search_events" THEN 30 ELSE 1

\* to_date after "if not to_date: to_date = (datetime.now() + timedelta(...)).isoformat()"
ToDate(op, a) ==
    IF Truthy(a.to_date) THEN a.to_date
    ELSE IsoDate(AddDays(YMD(First10(Today)), WindowDays(op)))
         \o <<"T", "0", "9", ":", "0", "0", ":", "0", "0">>

\* start_date_str and end_date_str as the script holds them
Window(op, a) ==
    [start |-> Strftime(YMD(First10(FromDate(a)))),
     end   |-> Strftime(YMD(First10(ToDate(op, a)))) \o <<" 11:59:59 PM">>]

NoWindow == [start |-> <<>>, end |-> <<>>]

EventDatesParse(a) ==
    /\ IsIsoDateTime(Replace(a.start_date, <<"Z">>, UtcOffset))
    /\ IsIsoDateTime(Replace(a.end_date, <<"Z">>, UtcOffset))

\* the returns between check_app_access and run_script
CalendarStops(op, a) ==
    CASE op \in {"search_events", "get_events"} -> ~WindowDatesParse(a)
      [] op = "create_event" -> ~EventDatesParse(a)
      [] op = "open_event" -> FALSE

CalendarStopped(op, a) ==
    CASE op \in {"search_events", "get_events"} ->
           Outcome(ListRet(<<>>), <<<<"Date parsing error: ", "ValueError">>>>)
      [] op = "create_event" ->
           Outcome(StatusRet(FALSE, <<"Invalid date format. Please use ISO format.">>), <<>>)

CalendarScript(op, a) ==
    CASE op = "search_events" -> <<Lit("search_text", EscapeQuotes(a.search_text))>>
      [] op = "get_events" -> <<>>
      [] op = "create_event" ->
           (IF Truthy(a.calendar_name)
            THEN <<Lit("calendar_name", EscapeQuotes(a.calendar_name))>> ELSE <<>>)
           \o <<Lit("title", EscapeQuotes(a.title))>>
           \o (IF Truthy(a.location) THEN <<Lit("location", EscapeQuotes(a.location))>> ELSE <<>>)
           \o (IF Truthy(a.notes) THEN <<Lit("notes", EscapeQuotes(a.notes))>> ELSE <<>>)
      [] op = "open_event" -> <<Lit("event_id", a.event_id)>>

CalendarDenied(op) ==
    CASE op \in {"search_events", "get_events"} ->
           Outcome(ListRet(<<>>), <<<<"Cannot access Calendar app">>>>)
      [] OTHER ->
           Outcome(StatusRet(FALSE, <<"Cannot access Calendar app">>),
                   <<<<"Cannot access Calendar app">>>>)

\* title, location, description, start_date, end_date, calendar_name, uid = parts
EventEntity(parts) ==
    [title |-> parts[1],
     location |-> IF parts[2] # <<>> THEN parts[2] ELSE <<"Not specified">>,
     notes |-> parts[3], start_date |-> parts[4], end_date |-> parts[5],
     calendar_name |-> parts[6], id |-> parts[7]]

CalendarDecode(data) ==
    LET recs == DecodeChunks(data, 7)
    IN  [i \in 1..Len(recs) |-> EventEntity(recs[i])]

CalendarFailed(op) ==
    CASE op = "search_events" -> <<"Failed to search events: ">>
      [] op = "get_events"    -> <<"Failed to get events: ">>
      [] op = "create_event"  -> <<"Failed to create event: ">>
      [] op = "open_event"    -> <<"Failed to open event: ">>

CalendarErrorTag(op) ==
    CASE op = "search_events" -> <<"Calendar search error: ">>
      [] op = "get_events"    -> <<"Calendar get events error: ">>
      [] op = "create_event"  -> <<"Calendar creation error: ">>
      [] op = "open_event"    -> <<"Calendar open error: ">>

CalendarParse(op, a, res) ==
    IF ~HasOutput(res)
    THEN IF op \in {"create_event", "open_event"}
         THEN Outcome(StatusRet(FALSE, CalendarFailed(op) \o Fmt(res.error)),
                      <<CalendarFailed(op) \o Fmt(res.error)>>)
         ELSE Outcome(ListRet(<<>>), <<CalendarFailed(op) \o Fmt(res.error)>>)
    ELSE CASE op \in {"search_events", "get_events"} ->
                IF StartsWith(res.result, ErrorPrefix)
                THEN Outcome(ListRet(<<>>), <<CalendarErrorTag(op) \o res.result>>)
                ELSE Outcome(ListRet(CalendarDecode(res.result)), <<>>)
           [] op = "create_event" ->
                IF StartsWith(res.result, SuccessPrefix)
                THEN Outcome(StatusRet(TRUE, <<"Event created successfully">>), <<>>)
                ELSE Outcome(StatusRet(FALSE, res.result), <<CalendarErrorTag(op) \o res.result>>)
           [] op = "open_event" ->
                IF StartsWith(res.result, SuccessPrefix)
                THEN Outcome(StatusRet(TRUE, Replace(res.result, SuccessSpace, <<>>)), <<>>)
                ELSE Outcome(StatusRet(FALSE, res.result), <<CalendarErrorTag(op) \o res.result>>)

----------------------------------------------------------------------------
(* MapsHandler *)

MapsOps == {"search_locations", "save_location", "drop_pin", "get_directions",
            "list_guides", "create_guide", "add_to_guide"}

MapsStubOps == {"list_guides", "create_guide", "add_to_guide"}

MapsArgs(op) ==
    CASE op = "search_locations" -> [query : ReqText]
      [] op = "save_location"    -> [name : MoreText, address : ReqText]
      [] op = "drop_pin"         -> [name : MoreText, address : ReqText]
      [] op = "get_directions"   -> [from_address : ReqText, to_address : MoreText,
                                     transport_type : {<<"driving">>}]
      [] op = "list_guides"      -> {<<>>}
      [] op = "create_guide"     -> [guide_name : ReqText]
      [] op = "add_to_guide"     -> [address : ReqText, guide_name : MoreText]

MapsScript(op, a) ==
    CASE op = "search_locations" -> <<Lit("query", a.query), Lit("query", a.query)>>
      [] op = "save_location"    -> <<Lit("address", a.address)>>
      [] op = "drop_pin"         -> <<Lit("address", a.address), Lit("address", a.address)>>
      [] op = "get_directions"   ->
           <<Lit("from_address", a.from_address), Lit("to_address", a.to_address),
             Lit("from_address", a.from_address), Lit("to_address", a.to_address)>>

LocationsRet(ok, locs, msg) ==
    [kind |-> "locations", success |-> ok, locations |-> locs, message |-> msg]

MapsDenied(op) ==
    CASE op = "search_locations" ->
           Outcome(LocationsRet(FALSE, <<>>, <<"Cannot access Maps app">>),
                   <<<<"Cannot access Maps app">>>>)
      [] OTHER ->
           Outcome(StatusRet(FALSE, <<"Cannot access Maps app">>),
                   <<<<"Cannot access Maps app">>>>)

MapsStub(op, a) ==
    CASE op = "list_guides" ->
           Outcome(StatusRet(TRUE, <<"Guide listing is not available via AppleScript. Please check the Maps app directly for your guides.">>), <<>>)
      [] op = "create_guide" ->
           Outcome(StatusRet(FALSE, <<"Creating guides via AppleScript is not supported. Please create the guide '">>
                                    \o a.guide_name \o <<"' manually in the Maps app.">>), <<>>)
      [] op = "add_to_guide" ->
           Outcome(StatusRet(FALSE, <<"Adding to guides via AppleScript is not supported. Please manually add '">>
                                    \o a.address \o <<"' to the guide '">> \o a.guide_name
                                    \o <<"' in the Maps app.">>), <<>>)

MapsFailed(op) ==
    CASE op = "search_locations" -> <<"Failed to search locations: ">>
      [] op = "save_location"    -> <<"Failed to save location: ">>
      [] op = "drop_pin"         -> <<"Failed to drop pin: ">>
      [] op = "get_directions"   -> <<"Failed to get directions: ">>

MapsErrorTag(op) ==
    CASE op = "search_locations" -> <<"Maps search error: ">>
      [] op = "save_location"    -> <<"Maps save error: ">>
      [] op = "drop_pin"         -> <<"Maps pin error: ">>
      [] op = "get_directions"   -> <<"Maps directions error: ">>

MapsSuccess(op, a) ==
    CASE op = "search_locations" ->
           LocationsRet(TRUE,
                        <<[name |-> <<"Location for '">> \o a.query \o <<"'">>,
                           address |-> <<"Address not available via AppleScript">>]>>,
                        <<"Search completed for '">> \o a.query
                            \o <<"'. Please check Maps app for results.">>)
      [] op = "save_location" ->
           StatusRet(TRUE, <<"Location '">> \o a.name \o <<"' at '">> \o a.address
                           \o <<"' opened in Maps. You may need to manually save it to favorites.">>)
      [] op = "drop_pin" ->
           StatusRet(TRUE, <<"Pin dropped for '">> \o a.name \o <<"' at '">> \o a.address \o <<"'">>)
      [] op = "get_directions" ->
           StatusRet(TRUE, <<"Directions requested from '">> \o a.from_address \o <<"' to '">>
                           \o a.to_address \o <<"' using ">> \o a.transport_type
                           \o <<" mode. Check Maps app for route details.">>)

MapsFailure(op, msg) ==
    IF op = "search_locations" THEN LocationsRet(FALSE, <<>>, msg) ELSE StatusRet(FALSE, msg)

\* any output of the script read as success
MapsParseAnyOutput(op, a, res) ==
    IF HasOutput(res)
    THEN Outcome(MapsSuccess(op, a), <<>>)
    ELSE Outcome(MapsFailure(op, MapsFailed(op) \o Fmt(res.error)),
                 <<MapsFailed(op) \o Fmt(res.error)>>)

MapsParse(op, a, res) ==
    IF HasOutput(res)
    THEN IF StartsWith(res.result, SuccessPrefix)
         THEN Outcome(MapsSuccess(op, a), <<>>)
         ELSE Outcome(MapsFailure(op, res.result), <<MapsErrorTag(op) \o res.result>>)
    ELSE Outcome(MapsFailure(op, MapsFailed(op) \o Fmt(res.error)),
                 <<MapsFailed(op) \o Fmt(res.error)>>)

----------------------------------------------------------------------------
(* RemindersHandler: utils/reminders.py, called by server.py *)

RemindersOps == {"list_reminders", "search_reminders", "create_reminder", "open_reminder"}

RemindersArgs(op) ==
    CASE op = "list_reminders"   -> {<<>>}
      [] op = "search_reminders" -> [search_text : ReqText]
      [] op = "create_reminder"  -> [name : ReqText, list_name : OptText,
                                     notes : {None}, due_date : {None}]
      [] op = "open_reminder"    -> [search_text : ReqText]

RemindersScript(op, a) ==
    CASE op = "list_reminders"   -> <<>>
      [] op = "search_reminders" -> <<Lit("search_text", EscapeQuotes(a.search_text))>>
      [] op = "create_reminder"  ->
           <<Lit("name", EscapeQuotes(a.name))>>
           \o (IF Truthy(a.list_name) THEN <<Lit("list_name", EscapeQuotes(a.list_name))>> ELSE <<>>)
      [] op = "open_reminder"    -> <<Lit("search_text", EscapeQuotes(a.search_text))>>

RemindersDenied(op) ==
    IF op \in {"list_reminders", "search_reminders"}
    THEN Outcome(ListRet(<<>>), <<<<"Cannot access Reminders app">>>>)
    ELSE Outcome(StatusRet(FALSE, <<"Cannot access Reminders app">>),
                 <<<<"Cannot access Reminders app">>>>)

\* name and list of a reminder
ReminderEntity(parts) == [name |-> parts[1], list |-> parts[2]]

RemindersParse(op, a, res) ==
    IF op \in {"list_reminders", "search_reminders"}
    THEN IF HasOutput(res) /\ ~StartsWith(res.result, ErrorPrefix)
         THEN LET recs == DecodeChunks(res.result, 2)
              IN  Outcome(ListRet([i \in 1..Len(recs) |-> ReminderEntity(recs[i])]), <<>>)
         ELSE Outcome(ListRet(<<>>), <<<<"Reminders error">>>>)
    ELSE IF HasOutput(res)
         THEN IF StartsWith(res.result, SuccessPrefix)
              THEN Outcome(StatusRet(TRUE, Replace(res.result, SuccessSpace, <<>>)), <<>>)
              ELSE Outcome(StatusRet(FALSE, res.result), <<<<"Reminders error">>>>)
         ELSE Outcome(StatusRet(FALSE, <<"Failed: ">> \o Fmt(res.error)), <<<<"Reminders error">>>>)

----------------------------------------------------------------------------
(* The handlers together *)

HandlerOps == ContactsOps \cup NotesOps \cup MessagesOps \cup MailOps \cup CalendarOps
              \cup MapsOps \cup RemindersOps

StubOps == {"schedule_message"} \cup MapsStubOps

\* self.app_name
AppName(op) ==
    CASE op \in ContactsOps  -> "Contacts"
      [] op \in NotesOps     -> "Notes"
      [] op \in MessagesOps  -> "Messages"
      [] op \in MailOps      -> "Mail"
      [] op \in CalendarOps  -> "Calendar"
      [] op \in MapsOps      -> "Maps"
      [] op \in RemindersOps -> "Reminders"

ArgsOf(op) ==
    CASE op \in ContactsOps  -> ContactsArgs(op)
      [] op \in NotesOps     -> NotesArgs(op)
      [] op \in MessagesOps  -> MessagesArgs(op)
      [] op \in MailOps      -> MailArgs(op)
      [] op \in CalendarOps  -> CalendarArgs(op)
      [] op \in MapsOps      -> MapsArgs(op)
      [] op \in RemindersOps -> RemindersArgs(op)

Stub(op, a) == IF op \in MapsOps THEN MapsStub(op, a) ELSE MessagesStub(op, a)

Denied(op) ==
    CASE op \in ContactsOps  -> ContactsDenied(op)
      [] op \in NotesOps     -> NotesDenied(op)
      [] op \in MessagesOps  -> MessagesDenied(op)
      [] op \in MailOps      -> MailDenied(op)
      [] op \in CalendarOps  -> CalendarDenied(op)
      [] op \in MapsOps      -> MapsDenied(op)
      [] op \in RemindersOps -> RemindersDenied(op)

\* create_event that also returns early when its title is empty
StopsOnEmptyTitle(op, a) ==
    op \in CalendarOps /\ (CalendarStops(op, a) \/ (op = "create_event" /\ a.title = <<>>))

\* a handler returns between check_app_access and run_script
Stops(op, a) == op \in CalendarOps /\ CalendarStops(op, a)

Literals(op, a) ==
    CASE op \in ContactsOps  -> ContactsScript(op, a)
      [] op \in NotesOps     -> NotesScript(op, a)
      [] op \in MessagesOps  -> MessagesScript(op, a)
      [] op \in MailOps      -> MailScript(op, a)
      [] op \in CalendarOps  -> CalendarScript(op, a)
      [] op \in MapsOps      -> MapsScript(op, a)
      [] op \in RemindersOps -> RemindersScript(op, a)

\* the script: the application it tells, the template, the interpolated literals
Script(op, a) ==
    [app |-> AppName(op), op |-> op, literals |-> Literals(op, a),
     window |-> IF op \in {"search_events", "get_events"} THEN Window(op, a) ELSE NoWindow]

NoScript == [app |-> "none", op |-> "none", literals |-> <<>>, window |-> NoWindow]

Parse(op, a, res) ==
    CASE op \in ContactsOps  -> ContactsParse(op, a, res)
      [] op \in NotesOps     -> NotesParse(op, a, res)
      [] op \in MessagesOps  -> MessagesParse(op, a, res)
      [] op \in MailOps      -> MailParse(op, a, res)
      [] op \in CalendarOps  -> CalendarParse(op, a, res)
      [] op \in MapsOps      -> MapsParse(op, a, res)
      [] op \in RemindersOps -> RemindersParse(op, a, res)

----------------------------------------------------------------------------
(* AppleScriptRunner: utils/applescript.py *)

\* AppleScriptRunner().timeout
Timeout == 30

ScriptResult(ok, out, err) == [success |-> ok, result |-> out, error |-> err]

NoResult == [success |-> FALSE, result |-> None, error |-> <<"no run yet">>]

\* the standard output passed on as it is
CleanExitUntrimmed(stdout) == ScriptResult(TRUE, stdout, None)

\* exit status 0
CleanExit(stdout) == ScriptResult(TRUE, Strip(stdout), None)

\* the standard error dropped
ErrorExitGeneric(stderr) == ScriptResult(FALSE, None, <<"Unknown AppleScript error">>)

\* exit status not 0
ErrorExit(stderr) ==
    ScriptResult(FALSE, None,
                 IF Strip(stderr) # <<>> THEN Strip(stderr) ELSE <<"Unknown AppleScript error">>)

TimedOut == ScriptResult(FALSE, None, <<"execution timed out after ", ToString(Timeout)>>)

SpawnFailed == ScriptResult(FALSE, None, <<"osascript could not be started">>)

\* the child left alone when the timeout expires
TimedOutChildLeft == "running"

\* what becomes of the child when the timeout expires
TimedOutChild == "killed"

\* a child process that run_script has left behind it
ChildRecord(state, status, stdout, stderr, timedOut) ==
    [state |-> state, status |-> status, stdout |-> stdout, stderr |-> stderr,
     timedOut |-> timedOut]

\* exit statuses other than 0
ErrorStatus == {1, 126}

\* check_app_access: any failure of the probe script reads as no access
AccessOf(res) == IF res.success THEN "granted" ELSE "denied"

\* what osascript can print for a script of the handlers
StdoutPool ==
    {<<>>,
     <<" ", "\n">>,
     SuccessPrefix \o <<" ", "o", "k", "\n">>,
     ErrorPrefix \o <<" ", "n", "|", "o", "\n">>,
     <<"n", "o", "p", "e">>,
     <<"7", "\n">>,
     <<"a", "|", "b", ";", "c", ";", "d", "|", "e", "|", "f", "\n">>,
     <<"t", "|", "|", "n", "|", "s", "|", "e", "|", "c", "|", "u", ";", "|", "|", "|", "\n">>,
     <<"a", "|", "b", "|", "c", ";", ";", "x", ";", "d", "|", "e", "|", "f", "|", "g", ";",
       "h", "|", "i", "|", "j", "|", "k", "|", "l", "|", "m", "|", "n", "\n">>}

\* what osascript prints for the probe script of check_app_access
ProbeStdout == {<<"t", "r", "u", "e", "\n">>}

StderrPool == {<<>>, <<" ", "\n">>, <<"e", "r", "r", "\n">>}

----------------------------------------------------------------------------
(* server.py: the tools *)

Tools == {"contacts", "notes", "messages", "mail", "reminders", "calendar", "maps"}

\* the operation names a caller may send: the dispatched ones, the documented
\* 'listById' of reminders and a name no tool knows
Operations(tool) ==
    CASE tool = "contacts"  -> {"-"}
      [] tool = "notes"     -> {"search", "list", "create", "bogus"}
      [] tool = "messages"  -> {"send", "read", "schedule", "unread", "bogus"}
      [] tool = "mail"      -> {"unread", "search", "send", "mailboxes", "accounts", "bogus"}
      [] tool = "reminders" -> {"list", "search", "create", "open", "listById", "bogus"}
      [] tool = "calendar"  -> {"search", "list", "create", "open", "bogus"}
      [] tool = "maps"      -> {"search", "save", "pin", "directions", "listGuides",
                                "createGuide", "addToGuide", "bogus"}

OptTool == {None, <<"a">>}

ToolArgs(tool, operation) ==
    CASE tool = "contacts" -> [name : ToolText]
      [] tool = "notes" /\ operation = "search" -> [search_text : ToolText]
      [] tool = "notes" /\ operation = "create" ->
           [title : ToolText, body : ToolText, folder_name : {<<"Claude">>}]
      [] tool = "messages" /\ operation = "send" ->
           [phone_number : ToolText, message : ToolText]
      [] tool = "messages" /\ operation = "read" -> [phone_number : ToolText]
      [] tool = "messages" /\ operation = "schedule" ->
           [phone_number : ToolText, message : ToolText, scheduled_time : ToolText]
      [] tool = "mail" /\ operation = "unread" -> [account : OptTool, mailbox : OptTool]
      [] tool = "mail" /\ operation = "search" ->
           [search_term : ToolText, account : OptTool, mailbox : {None}]
      [] tool = "mail" /\ operation = "send" ->
           [to : ToolText, subject : ToolText, body : ToolText, cc : {None}, bcc : OptTool]
      [] tool = "mail" /\ operation = "mailboxes" -> [account : OptTool]
      [] tool = "reminders" /\ operation \in {"search", "open"} -> [search_text : ToolText]
      [] tool = "reminders" /\ operation = "create" ->
           [name : ToolText, list_name : OptTool, notes : {None}, due_date : {None}]
      [] tool = "calendar" /\ operation = "search" ->
           [search_text : ToolText, from_date : {None}, to_date : {None, Jan09}]
      [] tool = "calendar" /\ operation = "list" -> [from_date : {None, Jan05}, to_date : {None}]
      [] tool = "calendar" /\ operation = "create" ->
           [title : ToolText, start_date : {None, <<>>, Jan05}, end_date : {None, <<>>, Jan09},
            location : {None}, notes : {None}, is_all_day : {FALSE}, calendar_name : {None}]
      [] tool = "calendar" /\ operation = "open" -> [event_id : ToolText]
      [] tool = "maps" /\ operation = "search" -> [query : ToolText]
      [] tool = "maps" /\ operation \in {"save", "pin"} -> [name : ToolText, address : ToolText]
      [] tool = "maps" /\ operation = "directions" ->
           [from_address : ToolText, to_address : ToolText, transport_type : {<<"driving">>}]
      [] tool = "maps" /\ operation = "createGuide" -> [guide_name : ToolText]
      [] tool = "maps" /\ operation = "addToGuide" -> [address : ToolText, guide_name : ToolText]
      [] OTHER -> {<<>>}

Invalid(msg) == [kind |-> "validation", text |-> <<msg>>, op |-> "none", args |-> <<>>]

Unknown(operation, valid) ==
    [kind |-> "unknown",
     text |-> <<"Unknown operation: ", operation, ". Valid operations are: ", valid>>,
     op |-> "none", args |-> <<>>]

Dispatch(op, a) == [kind |-> "call", text |-> <<>>, op |-> op, args |-> a]

ContactsRoute(operation, a) ==
    IF Truthy(a.name) THEN Dispatch("find_number", a) ELSE Dispatch("get_all_numbers", <<>>)

\* the notes tool without its test of title and body
NotesRouteUnchecked(operation, a) ==
    CASE operation = "search" ->
           IF ~Truthy(a.search_text) THEN Invalid("Search text is required for search operation")
           ELSE Dispatch("search_notes", a)
      [] operation = "list" -> Dispatch("list_notes", a)
      [] operation = "create" -> Dispatch("create_note", a)
      [] OTHER -> Unknown(operation, "search, list, create")

NotesRoute(operation, a) ==
    CASE operation = "search" ->
           IF ~Truthy(a.search_text) THEN Invalid("Search text is required for search operation")
           ELSE Dispatch("search_notes", a)
      [] operation = "list" -> Dispatch("list_notes", a)
      [] operation = "create" ->
           IF ~Truthy(a.title) \/ ~Truthy(a.body)
           THEN Invalid("Title and body are required for create operation")
           ELSE Dispatch("create_note", a)
      [] OTHER -> Unknown(operation, "search, list, create")

MessagesRoute(operation, a) ==
    CASE operation = "send" ->
           IF ~Truthy(a.phone_number) \/ ~Truthy(a.message)
           THEN Invalid("Phone number and message are required for send operation")
           ELSE Dispatch("send_message", a)
      [] operation = "read" ->
           IF ~Truthy(a.phone_number) THEN Invalid("Phone number is required for read operation")
           ELSE Dispatch("read_messages", a)
      [] operation = "schedule" ->
           IF ~Truthy(a.phone_number) \/ ~Truthy(a.message) \/ ~Truthy(a.scheduled_time)
           THEN Invalid("Phone number, message, and scheduled_time are required for schedule operation")
           ELSE Dispatch("schedule_message", a)
      [] operation = "unread" -> Dispatch("get_unread_count", a)
      [] OTHER -> Unknown(operation, "send, read, schedule, unread")

MailRoute(operation, a) ==
    CASE operation = "unread" -> Dispatch("get_unread_emails", a)
      [] operation = "search" ->
           IF ~Truthy(a.search_term) THEN Invalid("Search term is required for search operation")
           ELSE Dispatch("search_emails", a)
      [] operation = "send" ->
           IF ~Truthy(a.to) \/ ~Truthy(a.subject) \/ ~Truthy(a.body)
           THEN Invalid("To, subject, and body are required for send operation")
           ELSE Dispatch("send_email", a)
      [] operation = "mailboxes" -> Dispatch("list_mailboxes", a)
      [] operation = "accounts" -> Dispatch("list_accounts", a)
      [] OTHER -> Unknown(operation, "unread, search, send, mailboxes, accounts")

RemindersRoute(operation, a) ==
    CASE operation = "list" -> Dispatch("list_reminders", a)
      [] operation = "search" ->
           IF ~Truthy(a.search_text) THEN Invalid("Search text is required for search operation")
           ELSE Dispatch("search_reminders", a)
      [] operation = "create" ->
           IF ~Truthy(a.name) THEN Invalid("Name is required for create operation")
           ELSE Dispatch("create_reminder", a)
      [] operation = "open" ->
           IF ~Truthy(a.search_text) THEN Invalid("Search text is required for open operation")
           ELSE Dispatch("open_reminder", a)
      [] OTHER -> Unknown(operation, "list, search, create, open")

CalendarRoute(operation, a) ==
    CASE operation = "search" ->
           IF ~Truthy(a.search_text) THEN Invalid("Search text is required for search operation")
           ELSE Dispatch("search_events", a)
      [] operation = "list" -> Dispatch("get_events", a)
      [] operation = "create" ->
           IF ~Truthy(a.title) \/ ~Truthy(a.start_date) \/ ~Truthy(a.end_date)
           THEN Invalid("Title, start_date, and end_date are required for create operation")
           ELSE Dispatch("create_event", a)
      [] operation = "open" ->
           IF ~Truthy(a.event_id) THEN Invalid("Event ID is required for open operation")
           ELSE Dispatch("open_event", a)
      [] OTHER -> Unknown(operation, "search, list, create, open")

\* the maps tool with a search as the fallback of its dispatch
MapsRouteFallsBack(operation, a) ==
    CASE operation = "search" ->
           IF ~Truthy(a.query) THEN Invalid("Search query is required for search operation")
           ELSE Dispatch("search_locations", a)
      [] operation = "save" ->
           IF ~Truthy(a.name) \/ ~Truthy(a.address)
           THEN Invalid("Name and address are required for save operation")
           ELSE Dispatch("save_location", a)
      [] operation = "pin" ->
           IF ~Truthy(a.name) \/ ~Truthy(a.address)
           THEN Invalid("Name and address are required for pin operation")
           ELSE Dispatch("drop_pin", a)
      [] operation = "directions" ->
           IF ~Truthy(a.from_address) \/ ~Truthy(a.to_address)
           THEN Invalid("From and to addresses are required for directions operation")
           ELSE Dispatch("get_directions", a)
      [] operation = "listGuides" -> Dispatch("list_guides", a)
      [] operation = "createGuide" ->
           IF ~Truthy(a.guide_name) THEN Invalid("Guide name is required for createGuide operation")
           ELSE Dispatch("create_guide", a)
      [] operation = "addToGuide" ->
           IF ~Truthy(a.address) \/ ~Truthy(a.guide_name)
           THEN Invalid("Address and guide name are required for addToGuide operation")
           ELSE Dispatch("add_to_guide", a)
      [] OTHER -> Dispatch("search_locations", a)

MapsRoute(operation, a) ==
    CASE operation = "search" ->
           IF ~Truthy(a.query) THEN Invalid("Search query is required for search operation")
           ELSE Dispatch("search_locations", a)
      [] operation = "save" ->
           IF ~Truthy(a.name) \/ ~Truthy(a.address)
           THEN Invalid("Name and address are required for save operation")
           ELSE Dispatch("save_location", a)
      [] operation = "pin" ->
           IF ~Truthy(a.name) \/ ~Truthy(a.address)
           THEN Invalid("Name and address are required for pin operation")
           ELSE Dispatch("drop_pin", a)
      [] operation = "directions" ->
           IF ~Truthy(a.from_address) \/ ~Truthy(a.to_address)
           THEN Invalid("From and to addresses are required for directions operation")
           ELSE Dispatch("get_directions", a)
      [] operation = "listGuides" -> Dispatch("list_guides", a)
      [] operation = "createGuide" ->
           IF ~Truthy(a.guide_name) THEN Invalid("Guide name is required for createGuide operation")
           ELSE Dispatch("create_guide", a)
      [] operation = "addToGuide" ->
           IF ~Truthy(a.address) \/ ~Truthy(a.guide_name)
           THEN Invalid("Address and guide name are required for addToGuide operation")
           ELSE Dispatch("add_to_guide", a)
      [] OTHER -> Unknown(operation, "search, save, pin, directions, listGuides, createGuide, addToGuide")

Route(tool, operation, a) ==
    CASE tool = "contacts"  -> ContactsRoute(operation, a)
      [] tool = "notes"     -> NotesRoute(operation, a)
      [] tool = "messages"  -> MessagesRoute(operation, a)
      [] tool = "mail"      -> MailRoute(operation, a)
      [] tool = "reminders" -> RemindersRoute(operation, a)
      [] tool = "calendar"  -> CalendarRoute(operation, a)
      [] tool = "maps"      -> MapsRoute(operation, a)

----------------------------------------------------------------------------
(* server.py: the replies *)

\* s[:n]
Take(s, n) == SubSeq(s, 1, IF Len(s) < n THEN Len(s) ELSE n)

Num(n) == <<ToString(n)>>

Lines(items, sep) == Join(items, <<sep>>)

ContactsFormat(operation, a, r) ==
    IF r.kind = "list"
    THEN IF r.items # <<>>
         THEN a.name \o <<": ">> \o Join(r.items, <<", ">>)
         ELSE <<"No contact found for \"">> \o a.name
              \o <<"\". Try a different name or use no name parameter to list all contacts.">>
    ELSE IF Len(r.items) = 0
         THEN <<"No contacts found in the address book. Please make sure you have granted access to Contacts.">>
         ELSE LET shown == Take(r.items, 50)
              IN  <<"Found ">> \o Num(Len(r.items)) \o <<" contacts">>
                  \o (IF Len(r.items) > 50 THEN <<" (showing first 50)">> ELSE <<>>)
                  \o <<":\n\n">>
                  \o Lines([i \in 1..Len(shown) |->
                              shown[i].key \o <<": ">> \o Join(shown[i].value, <<", ">>)], "\n")

NotesFormat(operation, a, r) ==
    CASE operation = "search" ->
           IF r.items # <<>>
           THEN <<"Found ">> \o Num(Len(r.items)) \o <<" notes matching '">> \o a.search_text
                \o <<"':\n\n">>
                \o Lines([i \in 1..Len(r.items) |->
                            <<"Title: ">> \o r.items[i].title \o <<"\nContent: ">>
                            \o Take(r.items[i].content, 200) \o <<"...">>], "\n\n")
           ELSE <<"No notes found matching '">> \o a.search_text \o <<"'">>
      [] operation = "list" ->
           IF r.items # <<>>
           THEN <<"Found ">> \o Num(Len(r.items)) \o <<" notes:\n\n">>
                \o Lines([i \in 1..Len(r.items) |->
                            <<"Title: ">> \o r.items[i].title \o <<"\nContent: ">>
                            \o Take(r.items[i].content, 100) \o <<"...">>], "\n\n")
           ELSE <<"No notes found">>
      [] operation = "create" ->
           IF r.success
           THEN <<"Successfully created note '">> \o a.title \o <<"' in folder '">>
                \o a.folder_name \o <<"'">>
           ELSE <<"Failed to create note: ">> \o r.message

MessagesFormat(operation, a, r) ==
    CASE operation = "send" ->
           IF r.success
           THEN <<"Message sent successfully to ">> \o a.phone_number \o <<": ">> \o a.message
           ELSE <<"Failed to send message: ">> \o r.message
      [] operation = "read" ->
           IF r.items # <<>>
           THEN <<"Last ">> \o Num(Len(r.items)) \o <<" messages with ">> \o a.phone_number
                \o <<":\n\n">>
                \o Lines([i \in 1..Len(r.items) |->
                            <<"[">> \o r.items[i].time \o <<"] ">> \o r.items[i].sender
                            \o <<": ">> \o r.items[i].content], "\n")
           ELSE <<"No messages found with ">> \o a.phone_number
      [] operation = "schedule" ->
           IF r.success
           THEN <<"Message scheduled successfully to ">> \o a.phone_number \o <<" at ">>
                \o a.scheduled_time \o <<": ">> \o a.message
           ELSE <<"Failed to schedule message: ">> \o r.message
      [] operation = "unread" -> <<"You have ">> \o Num(r.value) \o <<" unread messages">>

MailFormat(operation, a, r) ==
    CASE operation = "unread" ->
           IF r.items # <<>>
           THEN <<"Found ">> \o Num(Len(r.items)) \o <<" unread emails:\n\n">>
                \o Lines([i \in 1..Len(r.items) |->
                            <<"From: ">> \o r.items[i].sender \o <<"\nSubject: ">>
                            \o r.items[i].subject \o <<"\nDate: ">> \o r.items[i].date
                            \o <<"\n">>], "\n")
           ELSE <<"No unread emails found">>
      [] operation = "search" ->
           IF r.items # <<>>
           THEN <<"Found ">> \o Num(Len(r.items)) \o <<" emails matching '">> \o a.search_term
                \o <<"':\n\n">>
                \o Lines([i \in 1..Len(r.items) |->
                            <<"From: ">> \o r.items[i].sender \o <<"\nSubject: ">>
                            \o r.items[i].subject \o <<"\nDate: ">> \o r.items[i].date
                            \o <<"\nContent preview: ">> \o Take(r.items[i].content, 100)
                            \o <<"...">>], "\n")
           ELSE <<"No emails found matching '">> \o a.search_term \o <<"'">>
      [] operation = "send" ->
           IF r.success
           THEN <<"Email sent successfully to ">> \o a.to \o <<" with subject '">> \o a.subject
                \o <<"'">>
           ELSE <<"Failed to send email: ">> \o r.message
      [] operation = "mailboxes" ->
           IF r.items # <<>> THEN <<"Available mailboxes: ">> \o Join(r.items, <<", ">>)
           ELSE <<"No mailboxes found">>
      [] operation = "accounts" ->
           IF r.items # <<>> THEN <<"Available accounts: ">> \o Join(r.items, <<", ">>)
           ELSE <<"No email accounts found">>

ReminderLines(items) ==
    Lines([i \in 1..Len(items) |->
             <<"* ">> \o items[i].name \o <<" (List: ">> \o items[i].list \o <<")">>], "\n")

RemindersFormat(operation, a, r) ==
    CASE operation = "list" ->
           IF r.items # <<>>
           THEN <<"Found ">> \o Num(Len(r.items)) \o <<" reminders:\n\n">> \o ReminderLines(r.items)
           ELSE <<"No reminders found">>
      [] operation = "search" ->
           IF r.items # <<>>
           THEN <<"Found ">> \o Num(Len(r.items)) \o <<" reminders matching '">> \o a.search_text
                \o <<"':\n\n">> \o ReminderLines(r.items)
           ELSE <<"No reminders found matching '">> \o a.search_text \o <<"'">>
      [] operation = "create" ->
           IF r.success THEN <<"Successfully created reminder '">> \o a.name \o <<"'">>
           ELSE <<"Failed to create reminder: ">> \o r.message
      [] operation = "open" ->
           IF r.success THEN <<"Opened reminder: ">> \o r.message
           ELSE <<"Failed to open reminder: ">> \o r.message

EventLines(items) ==
    Lines([i \in 1..Len(items) |->
             items[i].title \o <<" (">> \o items[i].start_date \o <<" - ">> \o items[i].end_date
             \o <<")\nLocation: ">>
             \o (IF items[i].location # <<>> THEN items[i].location ELSE <<"Not specified">>)
             \o <<"\nCalendar: ">> \o items[i].calendar_name \o <<"\nID: ">> \o items[i].id],
          "\n\n")

CalendarFormat(operation, a, r) ==
    CASE operation = "search" ->
           IF r.items # <<>>
           THEN <<"Found ">> \o Num(Len(r.items)) \o <<" events matching '">> \o a.search_text
                \o <<"':\n\n">> \o EventLines(r.items)
           ELSE <<"No events found matching '">> \o a.search_text \o <<"'">>
      [] operation = "list" ->
           IF r.items # <<>>
           THEN <<"Found ">> \o Num(Len(r.items)) \o <<" events:\n\n">> \o EventLines(r.items)
           ELSE <<"No events found">>
      [] operation = "create" ->
           IF r.success
           THEN <<"Successfully created event '">> \o a.title \o <<"' from ">> \o a.start_date
                \o <<" to ">> \o a.end_date
           ELSE <<"Failed to create event: ">> \o r.message
      [] operation = "open" ->
           IF r.success THEN <<"Opened event: ">> \o r.message
           ELSE <<"Failed to open event: ">> \o r.message

MapsFormat(operation, a, r) ==
    IF operation = "search"
    THEN IF r.success
         THEN <<"Found ">> \o Num(Len(r.locations)) \o <<" locations for '">> \o a.query
              \o <<"':\n\n">>
              \o Lines([i \in 1..Len(r.locations) |->
                          <<"Name: ">> \o r.locations[i].name \o <<"\nAddress: ">>
                          \o r.locations[i].address], "\n\n")
         ELSE <<"Search failed: ">> \o r.message
    ELSE r.message

Format(tool, operation, a, r) ==
    CASE tool = "contacts"  -> ContactsFormat(operation, a, r)
      [] tool = "notes"     -> NotesFormat(operation, a, r)
      [] tool = "messages"  -> MessagesFormat(operation, a, r)
      [] tool = "mail"      -> MailFormat(operation, a, r)
      [] tool = "reminders" -> RemindersFormat(operation, a, r)
      [] tool = "calendar"  -> CalendarFormat(operation, a, r)
      [] tool = "maps"      -> MapsFormat(operation, a, r)

----------------------------------------------------------------------------
(* One call at a time: the tool or a direct caller, the handler, the runner *)

NoCall == [via |-> "none", tool |-> "none", operation |-> "none", targs |-> <<>>,
           op |-> "none", args |-> <<>>]

NoReply == [kind |-> "none", text |-> <<>>]

NoBackend == [search |-> "none", error |-> <<>>, anchors |-> <<>>]

NoWeb == [done |-> 0, results |-> <<>>, requests |-> <<>>]

\* a file that does not exist
Absent == [kind |-> "absent", value |-> [t |-> "null", s |-> "", v |-> <<>>]]

ClaudePath == "Library/Application Support/Claude/claude_desktop_config.json"

ClaudeDesktopPath == "Library/Application Support/Claude Desktop/claude_desktop_config.json"

ConfigPaths == {ClaudePath, ClaudeDesktopPath}

\* no config file yet, in a home directory that can be written
NoDisk == [files |-> [p \in ConfigPaths |-> Absent], writable |-> TRUE]

Init ==
    /\ pc = "idle"
    /\ call = NoCall
    /\ child = "none"
    /\ elapsed = 0
    /\ children = <<>>
    /\ runResult = NoResult
    /\ payload = NoScript
    /\ runCalls = 0
    /\ probeCalls = 0
    /\ handlerCalls = 0
    /\ ret = NoRet
    /\ reply = NoReply
    /\ log = <<>>
    /\ access = "unknown"
    /\ records = <<>>
    /\ loop = "none"
    /\ backend = NoBackend
    /\ web = NoWeb
    /\ disk = NoDisk

\* the reply of the web_search tool
WebFormat(query, r) ==
    IF r.success /\ r.results # <<>>
    THEN <<"Found ", ToString(Len(r.results)), " results for '">> \o query \o <<"':\n\n">>
         \o Join([i \in 1..Len(r.results) |->
                    <<"[">> \o r.results[i].url \o <<"] ">> \o r.results[i].title \o <<" - ">>
                    \o r.results[i].snippet \o <<"\ncontent: ">> \o r.results[i].content],
                 <<"\n\n">>)
    ELSE <<"No results found for '">> \o query \o <<"'">>

\* except Exception as e: return f"Error accessing ...: {str(e)}", else the reply
ToolReply(c, r) ==
    IF r.kind = "raised"
    THEN [kind |-> "error", text |-> <<"Error accessing ", c.tool, ": ", r.exc>>]
    ELSE IF c.tool = "web_search"
    THEN [kind |-> "result", text |-> WebFormat(c.args.query, r)]
    ELSE [kind |-> "result", text |-> Format(c.tool, c.operation, c.targs, r)]

\* create_note without its access check
BlockedButCreateNote(op, acc) == acc = "denied" /\ op # "create_note"

\* if not applescript.check_app_access(self.app_name): return ...
Blocked(op, acc) == acc = "denied"

\* the handler returns; the tool turns the value into its reply
Returned(c, out) ==
    /\ pc' = "returned"
    /\ ret' = out.ret
    /\ log' = log \o out.log
    /\ reply' = IF c.via = "tool" THEN ToolReply(c, out.ret) ELSE NoReply

\* the handler method c.op is entered
Enter(c) ==
    /\ call' = c
    /\ IF c.op \in StubOps
       THEN /\ Returned(c, Stub(c.op, c.args))
            /\ UNCHANGED <<child, probeCalls>>
       ELSE /\ pc' = "check"
            /\ child' = "spawning"
            /\ probeCalls' = probeCalls + 1
            /\ UNCHANGED <<ret, reply, log>>
    /\ UNCHANGED <<elapsed, children, runResult, payload, runCalls, access, records>>
    /\ UNCHANGED webVars
    /\ UNCHANGED disk

\* a handler method called by code other than server.py
DirectCall(op, a) ==
    /\ pc = "idle"
    /\ Enter([via |-> "direct", tool |-> "none", operation |-> "none", targs |-> <<>>,
              op |-> op, args |-> a])
    /\ UNCHANGED handlerCalls

\* a tool of server.py called with an operation name and its parameters
ToolCall(tool, operation, a) ==
    /\ pc = "idle"
    /\ LET route == Route(tool, operation, a)
           c == [via |-> "tool", tool |-> tool, operation |-> operation, targs |-> a,
                 op |-> route.op, args |-> route.args]
       IN  IF route.kind = "call"
           THEN /\ handlerCalls' = handlerCalls + 1
                /\ Enter(c)
           ELSE /\ call' = c
                /\ pc' = "returned"
                /\ reply' = [kind |-> route.kind, text |-> route.text]
                /\ UNCHANGED <<child, elapsed, children, runResult, payload, runCalls,
                               probeCalls, handlerCalls, ret, log, access, records, loop, backend, web, disk>>

\* run_script has returned res to the code that called it
RunnerDone(res, fin) ==
    /\ runResult' = res
    /\ children' = Append(children, fin)
    /\ elapsed' = 0
    /\ IF pc = "check"
       THEN /\ access' = AccessOf(res)
            /\ IF Blocked(call.op, AccessOf(res))
               THEN /\ Returned(call, Denied(call.op))
                    /\ child' = "none"
                    /\ UNCHANGED <<payload, runCalls>>
               ELSE IF Stops(call.op, call.args)
               THEN /\ Returned(call, CalendarStopped(call.op, call.args))
                    /\ child' = "none"
                    /\ UNCHANGED <<payload, runCalls>>
               ELSE /\ pc' = "payload"
                    /\ payload' = Script(call.op, call.args)
                    /\ runCalls' = runCalls + 1
                    /\ child' = "spawning"
                    /\ UNCHANGED <<ret, reply, log>>
       ELSE /\ Returned(call, Parse(call.op, call.args, res))
            /\ child' = "none"
            /\ UNCHANGED <<payload, runCalls, access>>
    /\ UNCHANGED <<call, probeCalls, handlerCalls, records>>
    /\ UNCHANGED webVars
    /\ UNCHANGED disk

\* osascript cannot be started
SpawnFails ==
    /\ pc \in {"check", "payload"}
    /\ child = "spawning"
    /\ RunnerDone(SpawnFailed, ChildRecord("unstarted", -1, <<>>, <<>>, FALSE))

\* the child process runs
ChildStarts ==
    /\ pc \in {"check", "payload"}
    /\ child = "spawning"
    /\ child' = "running"
    /\ UNCHANGED <<pc, call, elapsed, children, runResult, payload, runCalls, probeCalls,
                   handlerCalls, ret, reply, log, access, records, loop, backend, web, disk>>

\* a second passes and the child is still running
Tick ==
    /\ child = "running"
    /\ elapsed < Timeout
    /\ elapsed' = elapsed + 1
    /\ UNCHANGED <<pc, call, child, children, runResult, payload, runCalls, probeCalls,
                   handlerCalls, ret, reply, log, access, records, loop, backend, web, disk>>

\* the child exits with status 0 before the timeout
ChildExitsClean(stdout) ==
    /\ child = "running"
    /\ elapsed < Timeout
    /\ RunnerDone(CleanExit(stdout), ChildRecord("exited", 0, stdout, <<>>, FALSE))

\* the child exits with another status before the timeout
ChildExitsError(status, stderr) ==
    /\ child = "running"
    /\ elapsed < Timeout
    /\ RunnerDone(ErrorExit(stderr), ChildRecord("exited", status, <<>>, stderr, FALSE))

\* the timeout expires
TimeoutExpires ==
    /\ child = "running"
    /\ elapsed = Timeout
    /\ RunnerDone(TimedOut, ChildRecord(TimedOutChild, -1, <<>>, <<>>, TRUE))

\* the caller has its answer; the next call starts from the same state
NextCall ==
    /\ pc = "returned"
    /\ pc' = "idle"
    /\ call' = NoCall
    /\ children' = <<>>
    /\ runResult' = NoResult
    /\ payload' = NoScript
    /\ runCalls' = 0
    /\ probeCalls' = 0
    /\ handlerCalls' = 0
    /\ ret' = NoRet
    /\ reply' = NoReply
    /\ log' = <<>>
    /\ access' = "unknown"
    /\ backend' = NoBackend
    /\ web' = NoWeb
    /\ UNCHANGED <<child, elapsed, records, loop, disk>>

Next ==
    \/ \E op \in HandlerOps \ RemindersOps : \E a \in ArgsOf(op) : DirectCall(op, a)
    \/ \E tool \in Tools : \E operation \in Operations(tool) :
          \E a \in ToolArgs(tool, operation) : ToolCall(tool, operation, a)
    \/ SpawnFails
    \/ ChildStarts
    \/ Tick
    \/ \E out \in (IF pc = "check" THEN ProbeStdout ELSE StdoutPool) : ChildExitsClean(out)
    \/ \E status \in ErrorStatus : \E err \in StderrPool : ChildExitsError(status, err)
    \/ TimeoutExpires
    \/ NextCall

Spec == Init /\ [][Next]_vars

----------------------------------------------------------------------------
(* WebSearchHandler: utils/websearch.py, and web_search of server.py *)

\* an exception that leaves a function
Raised(exc) == [kind |-> "raised", exc |-> exc]

\* what asyncio can hold for the calling thread
LoopStates == {"none", "closed", "idle", "running"}

\* page_content[:500]
WebPreview == 500

\* most result anchors on the page of the backend
MaxAnchors == 2

WebRet(ok, results, err) ==
    [kind |-> "web", success |-> ok, results |-> results, error |-> err]

\* a url is its scheme, ":", "//", its host and its path, each part optional
UrlScheme(u) == IF Len(u) >= 2 /\ u[2] = ":" THEN u[1] ELSE ""

UrlNetloc(u) ==
    LET r == IF UrlScheme(u) # "" THEN SubSeq(u, 3, Len(u)) ELSE u
    IN  IF Len(r) >= 2 /\ r[1] = "//" THEN r[2] ELSE ""

\* re.sub(r'\s+', ' ', text).strip() after the lines and phrases are joined
CleanText(t) ==
    LET idx == SelectSeq([i \in 1..Len(t) |-> i],
                         LAMBDA i : ~(t[i] \in Whitespace /\ i > 1 /\ t[i - 1] \in Whitespace))
    IN  Strip([j \in 1..Len(idx) |-> IF t[idx[j]] \in Whitespace THEN " " ELSE t[idx[j]]])

\* a fetch that is tried a second time when it fails
ExtractPageContentRetry(a) ==
    IF UrlScheme(a.href) = "" \/ UrlNetloc(a.href) = ""
    THEN [text |-> <<"Invalid URL">>, log |-> <<>>, gets |-> <<>>]
    ELSE IF a.page.status # "ok"
    THEN [text |-> <<"Content not available">>,
          log |-> <<<<"Failed to extract content from ">> \o a.href \o <<": ", a.page.status>>>>,
          gets |-> <<a.href, a.href>>]
    ELSE [text |-> CleanText(a.page.text), log |-> <<>>, gets |-> <<a.href>>]

\* a failed fetch that leaves the content empty
ExtractPageContentEmpty(a) ==
    IF UrlScheme(a.href) = "" \/ UrlNetloc(a.href) = ""
    THEN [text |-> <<>>, log |-> <<>>, gets |-> <<>>]
    ELSE IF a.page.status # "ok"
    THEN [text |-> <<>>, log |-> <<>>, gets |-> <<a.href>>]
    ELSE [text |-> CleanText(a.page.text), log |-> <<>>, gets |-> <<a.href>>]

\* _extract_page_content: the text, what it logs and the GETs it sends
ExtractPageContent(a) ==
    IF UrlScheme(a.href) = "" \/ UrlNetloc(a.href) = ""
    THEN [text |-> <<"Invalid URL">>, log |-> <<>>, gets |-> <<>>]
    ELSE IF a.page.status # "ok"
    THEN [text |-> <<"Content not available">>,
          log |-> <<<<"Failed to extract content from ">> \o a.href \o <<": ", a.page.status>>>>,
          gets |-> <<a.href>>]
    ELSE [text |-> CleanText(a.page.text), log |-> <<>>, gets |-> <<a.href>>]

\* the content cut to the preview length and nothing added
WebContentCut(text) ==
    IF Len(text) > WebPreview THEN SubSeq(text, 1, WebPreview) ELSE text

\* page_content[:500] + "..." if len(page_content) > 500 else page_content
WebContent(text) ==
    IF Len(text) > WebPreview
    THEN SubSeq(text, 1, WebPreview) \o <<".", ".", ".">> ELSE text

\* the body of the loop over the result links
ProcessLink(a) ==
    [title   |-> Strip(a.title),
     url     |-> a.href,
     snippet |-> IF a.snippet = None THEN <<>> ELSE Strip(a.snippet),
     content |-> WebContent(ExtractPageContent(a).text)]

\* every link of the page, whatever max_results is
LimitIgnored(n, m) == n

\* len(result_links[:max_results])
Limit(n, m) ==
    IF m >= 0 THEN (IF n < m THEN n ELSE m) ELSE (IF n + m > 0 THEN n + m ELSE 0)

Xs(n) == [i \in 1..n |-> "x"]

GoodUrl(path) == <<"https", ":", "//", "a.example", path>>

Page(status, text) == [status |-> status, text |-> text]

Anchor(title, href, snippet, page) ==
    [title |-> title, href |-> href, snippet |-> snippet, page |-> page]

\* result anchors of the backend's page, each with the page its href leads to
AnchorPool ==
    {Anchor(<<" ", "1", "\n">>, GoodUrl("/1"), <<"s", "1", " ">>,
            Page("ok", <<"\n", "a", " ", " ", "b", "\n">>)),
     Anchor(<<"2">>, GoodUrl("/2"), <<"s", "2">>, Page("ok", Xs(WebPreview + 1))),
     Anchor(<<"3">>, GoodUrl("/3"), <<"s", "3">>, Page("ok", Xs(WebPreview))),
     Anchor(<<"4">>, GoodUrl("/4"), <<"s", "4">>, Page("HTTPStatusError", <<>>)),
     Anchor(<<"5">>, GoodUrl("/5"), <<"s", "5">>, Page("ReadTimeout", <<>>)),
     Anchor(<<"6">>, <<"//", "duckduckgo.com", "/l/?uddg=6">>, <<"s", "6">>, Page("ok", <<"c">>)),
     Anchor(<<"7">>, GoodUrl("/7"), None, Page("ok", <<"c">>))}

\* what the backend can answer to one search
Backends ==
    {[search |-> "ok", error |-> <<>>, anchors |-> a] :
        a \in UNION {[1..n -> AnchorPool] : n \in 0..MaxAnchors}}
    \cup {[search |-> "failed", error |-> e, anchors |-> <<>>] :
            e \in {<<"Server error '500'">>, <<>>}}

Queries == {<<"q">>}

MaxResults == {0, 1, 5}

\* search_web of the handler, the whole of it
SearchWeb(m, be) ==
    IF be.search # "ok"
    THEN WebRet(FALSE, <<>>, be.error)
    ELSE WebRet(TRUE, [i \in 1..Limit(Len(be.anchors), m) |-> ProcessLink(be.anchors[i])], None)

WebCallRecord(entry, q, m) ==
    [via |-> entry, tool |-> IF entry = "tool" THEN "web_search" ELSE "none",
     operation |-> "none", targs |-> <<>>,
     op |-> "search_web", args |-> [query |-> q, max_results |-> m]]

\* loop.run_until_complete on a loop that is running
AlreadyRunning == <<"This event loop is already running">>

\* a search_web_sync that closes the loop it made
LoopAfterSyncClosed(l) == IF l \in {"none", "closed"} THEN "closed" ELSE l

\* the loop search_web_sync leaves as the current one of the thread
LoopAfterSync(l) == IF l \in {"none", "closed"} THEN "idle" ELSE l

\* a search starts: awaited by a coroutine, or through search_web_sync, called
\* by other code or by the web_search tool
WebCall(entry, q, m, be) ==
    /\ pc = "idle"
    /\ entry = "async" => loop = "running"
    /\ entry = "tool" => m = 5
    /\ call' = WebCallRecord(entry, q, m)
    /\ backend' = be
    /\ handlerCalls' = IF entry = "tool" THEN handlerCalls + 1 ELSE handlerCalls
    /\ IF entry # "async" /\ loop = "running"
       THEN /\ Returned(WebCallRecord(entry, q, m),
                        Outcome(WebRet(FALSE, <<>>, AlreadyRunning),
                                <<<<"Sync web search failed: ">> \o AlreadyRunning>>))
            /\ UNCHANGED loop
       ELSE /\ pc' = "search"
            /\ loop' = IF entry = "async" THEN loop ELSE LoopAfterSync(loop)
            /\ UNCHANGED <<ret, reply, log>>
    /\ UNCHANGED <<child, elapsed, children, runResult, payload, runCalls, probeCalls,
                   access, records, web, disk>>

\* f"{self.base_url}/html/"
SearchUrl == <<"https://duckduckgo.com", "/html/">>

\* the GET of the search page is sent: the backend answers it, or it fails
WebSearchResponds ==
    /\ pc = "search"
    /\ web' = [done |-> 0, results |-> <<>>, requests |-> <<SearchUrl>>]
    /\ IF backend.search # "ok"
       THEN Returned(call, Outcome(WebRet(FALSE, <<>>, backend.error),
                                   <<<<"Web search failed: ">> \o backend.error>>))
       ELSE /\ pc' = "fetch"
            /\ UNCHANGED <<ret, reply, log>>
    /\ UNCHANGED <<call, child, elapsed, children, runResult, payload, runCalls, probeCalls,
                   handlerCalls, access, records, loop, backend, disk>>

\* the next result link: its page is fetched and the result is appended
WebFetch ==
    /\ pc = "fetch"
    /\ web.done < Limit(Len(backend.anchors), call.args.max_results)
    /\ LET a == backend.anchors[web.done + 1]
       IN  /\ web' = [done |-> web.done + 1, results |-> Append(web.results, ProcessLink(a)),
                       requests |-> web.requests \o ExtractPageContent(a).gets]
           /\ log' = log \o ExtractPageContent(a).log
    /\ UNCHANGED <<pc, call, child, elapsed, children, runResult, payload, runCalls,
                   probeCalls, handlerCalls, ret, reply, access, records, loop, backend,
                   disk>>

\* every link is done: the search returns its results
WebReturns ==
    /\ pc = "fetch"
    /\ web.done = Limit(Len(backend.anchors), call.args.max_results)
    /\ Returned(call, Outcome(WebRet(TRUE, web.results, None), <<>>))
    /\ UNCHANGED <<call, child, elapsed, children, runResult, payload, runCalls, probeCalls,
                   handlerCalls, access, records, loop, backend, web, disk>>

InitWeb ==
    /\ pc = "idle"
    /\ call = NoCall
    /\ child = "none"
    /\ elapsed = 0
    /\ children = <<>>
    /\ runResult = NoResult
    /\ payload = NoScript
    /\ runCalls = 0
    /\ probeCalls = 0
    /\ handlerCalls = 0
    /\ ret = NoRet
    /\ reply = NoReply
    /\ log = <<>>
    /\ access = "unknown"
    /\ records = <<>>
    /\ loop \in LoopStates
    /\ backend = NoBackend
    /\ web = NoWeb
    /\ disk = NoDisk

NextWeb ==
    \/ \E entry \in {"async", "sync", "tool"} : \E q \in Queries : \E m \in MaxResults \cup {5} :
          \E be \in Backends : WebCall(entry, q, m, be)
    \/ WebSearchResponds
    \/ WebFetch
    \/ WebReturns
    \/ NextCall

SpecWeb == InitWeb /\ [][NextWeb]_vars

\* the server: the tools of the applications and the web search, one call
\* after the other, in a thread that has no event loop or a running one
InitAll ==
    /\ pc = "idle"
    /\ call = NoCall
    /\ child = "none"
    /\ elapsed = 0
    /\ children = <<>>
    /\ runResult = NoResult
    /\ payload = NoScript
    /\ runCalls = 0
    /\ probeCalls = 0
    /\ handlerCalls = 0
    /\ ret = NoRet
    /\ reply = NoReply
    /\ log = <<>>
    /\ access = "unknown"
    /\ records = <<>>
    /\ loop \in {"none", "running"}
    /\ backend = NoBackend
    /\ web = NoWeb
    /\ disk = NoDisk

NextAll ==
    \/ Next
    \/ \E entry \in {"async", "sync", "tool"} : \E q \in Queries : \E m \in MaxResults \cup {5} :
          \E be \in Backends : WebCall(entry, q, m, be)
    \/ WebSearchResponds
    \/ WebFetch
    \/ WebReturns

SpecAll == InitAll /\ [][NextAll]_vars

----------------------------------------------------------------------------
(* The record blob: the script joins, the handler splits *)

\* most records in one blob
MaxRecords == 2

\* the listing operations whose scripts join records with "|" and ";"
CodecOps == {"search_notes", "list_notes", "read_messages", "get_unread_emails",
             "search_emails", "search_events", "get_events"}

\* fields of a record of the operation
FieldCount(op) ==
    CASE op \in NotesOps    -> 2
      [] op \in MessagesOps -> 3
      [] op \in MailOps     -> 4
      [] op \in CalendarOps -> 7

LongText == [i \in 1..(ContentPreview + 1) |-> "x"]

\* what a field of the application can hold
FieldPool == {<<>>, ErrorPrefix \o <<" ", "x">>, LongText, <<"a", "|">>, <<";">>}

\* records that differ from a plain one in at most one field
RecordPool(n) ==
    {[k \in 1..n |-> <<"x">>]}
    \cup {[k \in 1..n |-> IF k = i THEN v ELSE <<"x">>] : i \in 1..n, v \in FieldPool}

RecordLists(n) ==
    UNION {[1..len -> RecordPool(n)] : len \in 1..MaxRecords}

\* noteTitle & "|" & noteContent ... text item delimiters ";"
Encode(recs) == Join([i \in 1..Len(recs) |-> Join(recs[i], FieldSep)], RecordSep)

InitCodec ==
    /\ pc = "encode"
    /\ \E op \in CodecOps :
          /\ call = [via |-> "script", tool |-> "none", operation |-> "none", targs |-> <<>>,
                     op |-> op, args |-> <<>>]
          /\ records \in RecordLists(FieldCount(op))
    /\ child = "none"
    /\ elapsed = 0
    /\ children = <<>>
    /\ runResult = NoResult
    /\ payload = NoScript
    /\ runCalls = 0
    /\ probeCalls = 0
    /\ handlerCalls = 0
    /\ ret = NoRet
    /\ reply = NoReply
    /\ log = <<>>
    /\ access = "granted"
    /\ loop = "none"
    /\ backend = NoBackend
    /\ web = NoWeb
    /\ disk = NoDisk

\* the script returns its records as one string
EncodeStep ==
    /\ pc = "encode"
    /\ pc' = "decode"
    /\ runResult' = ScriptResult(TRUE, Encode(records), None)
    /\ UNCHANGED <<call, child, elapsed, children, payload, runCalls, probeCalls,
                   handlerCalls, ret, reply, log, access, records, loop, backend, web, disk>>

\* the handler takes the string apart
DecodeStep ==
    /\ pc = "decode"
    /\ pc' = "decoded"
    /\ ret' = Parse(call.op, call.args, runResult).ret
    /\ log' = log \o Parse(call.op, call.args, runResult).log
    /\ UNCHANGED <<call, child, elapsed, children, runResult, payload, runCalls, probeCalls,
                   handlerCalls, reply, access, records, loop, backend, web, disk>>

NextCodec == EncodeStep \/ DecodeStep

SpecCodec == InitCodec /\ [][NextCodec]_vars

----------------------------------------------------------------------------
(* setup_helper.py and scripts/test_installation.py: the config of Claude Desktop *)

\* a JSON value: null, a string s, a list, an object with its members v in file order
JNull == [t |-> "null", s |-> "", v |-> <<>>]

JStr(str) == [t |-> "str", s |-> str, v |-> <<>>]

\* the empty list
JList == [t |-> "list", s |-> "", v |-> <<>>]

JObj(members) == [t |-> "obj", s |-> "", v |-> members]

Member(k, val) == [key |-> k, value |-> val]

NotJson == [kind |-> "text", value |-> JNull]

JsonFile(val) == [kind |-> "json", value |-> val]

\* json.load: an object keeps one member for each key, the last value at the
\* place of the first
RECURSIVE Load(_)
RECURSIVE LoadMembers(_, _)
Load(val) == IF val.t = "obj" THEN JObj(LoadMembers(val.v, <<>>)) ELSE val

LoadMembers(members, d) ==
    IF members = <<>> THEN d
    ELSE LoadMembers(Tail(members), DictPut(d, Head(members).key, Load(Head(members).value)))

\* k in o, o[k] and o[k] = val of a dict
Has(o, k) == \E i \in 1..Len(o.v) : o.v[i].key = k

Get(o, k) == (CHOOSE m \in {o.v[i] : i \in 1..Len(o.v)} : m.key = k).value

Put(o, k, val) == JObj(DictPut(o.v, k, val))

Keys(o) == {o.v[i].key : i \in 1..Len(o.v)}

ExePath == "/usr/local/bin/pyapple-mcp"

\* find_claude_config on macOS: the first path that exists, else the newer one
FindClaudeConfig(files) ==
    IF files[ClaudePath].kind # "absent" THEN ClaudePath
    ELSE IF files[ClaudeDesktopPath].kind # "absent" THEN ClaudeDesktopPath
    ELSE ClaudeDesktopPath

\* config["mcpServers"]["pyapple"] = {"command": pyapple_mcp_path}
PyappleEntry(exe) == JObj(<<Member("command", JStr(exe))>>)

\* the entry written under the name the self-test looks for
ServerKeyOfSelfTest == "pyapple-mcp"

\* the name update_claude_config gives the server
ServerKey == "pyapple"

\* update_claude_config: the files afterwards and what the call gives back
UpdateClaudeConfig(d, path, exe) ==
    LET file   == d.files[path]
        config == IF file.kind = "json" THEN Load(file.value) ELSE JObj(<<>>)
    IN  IF config.t # "obj"
        THEN [files |-> d.files, ret |-> Raised("TypeError")]
        ELSE LET withServers == IF Has(config, "mcpServers") THEN config
                                ELSE Put(config, "mcpServers", JObj(<<>>))
                 servers == Get(withServers, "mcpServers")
             IN  IF servers.t # "obj"
                 THEN [files |-> d.files, ret |-> Raised("TypeError")]
                 ELSE IF ~d.writable
                 THEN [files |-> d.files, ret |-> [kind |-> "bool", value |-> FALSE]]
                 ELSE [files |-> [d.files EXCEPT ![path] =
                                    JsonFile(Put(withServers, "mcpServers",
                                                 Put(servers, ServerKey, PyappleEntry(exe))))],
                       ret |-> [kind |-> "path", value |-> path]]

\* test_claude_config of the installation self-test
TestClaudeConfig(files) ==
    LET file == files[ClaudePath]
    IN  IF file.kind = "absent" THEN FALSE
        ELSE IF file.kind # "json" THEN FALSE
        ELSE LET config == Load(file.value)
             IN  /\ config.t = "obj"
                 /\ Has(config, "mcpServers")
                 /\ Get(config, "mcpServers").t = "obj"
                 /\ Has(Get(config, "mcpServers"), ServerKeyOfSelfTest)

OtherEntry == JObj(<<Member("command", JStr("/bin/other"))>>)

OldEntry == JObj(<<Member("command", JStr("/old/pyapple-mcp")), Member("args", JList)>>)

\* what a config file can hold before the setup
DocPool ==
    {Absent,
     NotJson,
     JsonFile(JObj(<<>>)),
     JsonFile(JObj(<<Member("theme", JStr("dark")),
                     Member("mcpServers", JObj(<<Member("other", OtherEntry)>>))>>)),
     JsonFile(JObj(<<Member("mcpServers", JObj(<<Member("other", OtherEntry),
                                                 Member("pyapple", OldEntry)>>)),
                     Member("theme", JStr("dark"))>>)),
     JsonFile(JObj(<<Member("mcpServers", JNull)>>)),
     JsonFile(JList),
     JsonFile(JObj(<<Member("theme", JStr("light")), Member("theme", JStr("dark")),
                     Member("mcpServers", JObj(<<Member("pyapple-mcp", OtherEntry)>>))>>))}

SetupCall(op, path, exe, arg) ==
    [via |-> "direct", tool |-> "none", operation |-> "none", targs |-> <<>>,
     op |-> op, args |-> [config_path |-> path, exe |-> exe, arg |-> arg]]

ExitCode(n) == [kind |-> "exit", value |-> n]

\* main of setup_helper.py up to its call of update_claude_config; exe is what
\* find_executable found, arg the --config-path option
SetupMain(exe, arg) ==
    /\ pc = "idle"
    /\ LET path == IF arg = "none" THEN FindClaudeConfig(disk.files) ELSE arg
       IN  /\ call' = SetupCall("main", path, exe, arg)
           /\ IF exe = "none"
              THEN pc' = "returned" /\ ret' = ExitCode(1)
              ELSE pc' = "update" /\ UNCHANGED ret
    /\ UNCHANGED <<child, elapsed, children, runResult, payload, runCalls, probeCalls,
                   handlerCalls, reply, log, access, records, loop, backend, web, disk>>

\* update_claude_config called by other code
DirectUpdate(path, exe) ==
    /\ pc = "idle"
    /\ call' = SetupCall("update_claude_config", path, exe, path)
    /\ pc' = "update"
    /\ UNCHANGED <<child, elapsed, children, runResult, payload, runCalls, probeCalls,
                   handlerCalls, ret, reply, log, access, records, loop, backend, web, disk>>

\* update_claude_config runs; main turns what it gives back into its exit code
ConfigUpdated ==
    /\ pc = "update"
    /\ LET out == UpdateClaudeConfig(disk, call.args.config_path, call.args.exe)
       IN  /\ disk' = [disk EXCEPT !.files = out.files]
           /\ ret' = IF call.op = "main"
                     THEN ExitCode(IF out.ret.kind = "path" THEN 0 ELSE 1)
                     ELSE out.ret
    /\ pc' = "returned"
    /\ UNCHANGED <<call, child, elapsed, children, runResult, payload, runCalls, probeCalls,
                   handlerCalls, reply, log, access, records, loop, backend, web>>

\* the self-test looks at the config
SelfTest ==
    /\ pc = "idle"
    /\ call' = SetupCall("test_claude_config", ClaudePath, "none", "none")
    /\ ret' = [kind |-> "bool", value |-> TestClaudeConfig(disk.files)]
    /\ pc' = "returned"
    /\ UNCHANGED <<child, elapsed, children, runResult, payload, runCalls, probeCalls,
                   handlerCalls, reply, log, access, records, loop, backend, web, disk>>

InitSetup ==
    /\ pc = "idle"
    /\ call = NoCall
    /\ child = "none"
    /\ elapsed = 0
    /\ children = <<>>
    /\ runResult = NoResult
    /\ payload = NoScript
    /\ runCalls = 0
    /\ probeCalls = 0
    /\ handlerCalls = 0
    /\ ret = NoRet
    /\ reply = NoReply
    /\ log = <<>>
    /\ access = "unknown"
    /\ records = <<>>
    /\ loop = "none"
    /\ backend = NoBackend
    /\ web = NoWeb
    /\ disk \in [files : [ConfigPaths -> DocPool], writable : BOOLEAN]

NextSetup ==
    \/ \E exe \in {"none", ExePath} : \E arg \in {"none", ClaudeDesktopPath} : SetupMain(exe, arg)
    \/ \E path \in ConfigPaths : DirectUpdate(path, ExePath)
    \/ ConfigUpdated
    \/ SelfTest
    \/ NextCall

SpecSetup == InitSetup /\ [][NextSetup]_vars

----------------------------------------------------------------------------
(* Properties *)

LastChild == children[Len(children)]

\* the handler operations of src/ that talk to an application
BridgeOps == (HandlerOps \ RemindersOps) \ StubOps

\* r is s without its leading and trailing white space
IsTrimOf(r, s) ==
    \E i \in 0..Len(s) : \E j \in i..Len(s) :
        /\ r = SubSeq(s, i + 1, j)
        /\ \A k \in 1..i : s[k] \in Whitespace
        /\ \A k \in (j + 1)..Len(s) : s[k] \in Whitespace
        /\ r # <<>> => (r[1] \notin Whitespace /\ r[Len(r)] \notin Whitespace)

\* C1: when check_app_access has told a handler operation of Contacts, Notes,
\* Messages, Mail, Calendar or Maps that its application cannot be reached, the
\* handler has handed no script to run_script, and what it returns is its failure
\* value: an empty list, an empty dict, 0, or success = False with the message
\* "Cannot access <App> app".
C1_AccessDeniedStopsHandler ==
    (call.op \in BridgeOps /\ access = "denied") =>
        /\ runCalls = 0
        /\ payload = NoScript
        /\ pc = "returned"
        /\ ret.kind \in {"list", "dict"} => ret.items = <<>>
        /\ ret.kind = "int" => ret.value = 0
        /\ ret.kind \in {"status", "locations"} =>
              (~ret.success /\ ret.message = <<"Cannot access " \o AppName(call.op) \o " app">>)
        /\ ret.kind = "locations" => ret.locations = <<>>
        /\ ret.kind # "none"

C1_Witness ==
    /\ call.op = "create_note" /\ access = "denied" /\ pc = "returned"
    /\ probeCalls = 1 /\ ret.kind = "status"

\* C2: a child that exits with status 0 makes run_script return success = True,
\* the standard output without its leading and trailing white space as result,
\* and None as error.
C2_CleanExitResult ==
    (children # <<>> /\ LastChild.state = "exited" /\ LastChild.status = 0) =>
        /\ runResult.success
        /\ runResult.result # None
        /\ IsTrimOf(runResult.result, LastChild.stdout)
        /\ runResult.error = None

C2_Witness ==
    /\ children # <<>> /\ LastChild.state = "exited" /\ LastChild.status = 0
    /\ pc = "returned"
    /\ runResult.result # <<>>
    /\ runResult.result # LastChild.stdout

\* C3: a child that exits with another status makes run_script return
\* success = False, None as result, and an error that is not empty and contains
\* the standard error without its leading and trailing white space.
C3_ErrorExitResult ==
    (children # <<>> /\ LastChild.state = "exited" /\ LastChild.status # 0) =>
        /\ ~runResult.success
        /\ runResult.result = None
        /\ runResult.error # None
        /\ runResult.error # <<>>
        /\ \A i \in 0..Len(LastChild.stderr) : \A j \in i..Len(LastChild.stderr) :
              IsTrimOf(SubSeq(LastChild.stderr, i + 1, j), LastChild.stderr)
                  => Contains(runResult.error, SubSeq(LastChild.stderr, i + 1, j))

C3_Witness ==
    /\ children # <<>> /\ LastChild.state = "exited" /\ LastChild.status # 0
    /\ pc = "returned" /\ runCalls = 1
    /\ LastChild.stderr # <<>>
    /\ runResult.error # LastChild.stderr
    /\ Contains(LastChild.stderr, runResult.error)

\* C4: a child that is still running when the timeout of 30 expires makes
\* run_script return success = False with an error that names the timeout, and no
\* child that a returned run_script has left is still running.
C4_TimeoutResult ==
    /\ Timeout = 30
    /\ \A i \in 1..Len(children) : children[i].state # "running"
    /\ (children # <<>> /\ LastChild.timedOut) =>
          /\ ~runResult.success
          /\ runResult.result = None
          /\ runResult.error = <<"execution timed out after ", "30">>

C4_Witness ==
    /\ children # <<>> /\ LastChild.timedOut
    /\ pc = "returned" /\ runCalls = 1 /\ child = "none"

\* the parameters a handler method has no default for
HandlerRequired(op) ==
    CASE op = "find_number"      -> {"name"}
      [] op = "search_notes"     -> {"search_text"}
      [] op = "create_note"      -> {"title", "body"}
      [] op = "send_message"     -> {"phone_number", "message"}
      [] op = "read_messages"    -> {"phone_number"}
      [] op = "schedule_message" -> {"phone_number", "message", "scheduled_time"}
      [] op = "search_emails"    -> {"search_term"}
      [] op = "send_email"       -> {"to", "subject", "body"}
      [] op = "search_events"    -> {"search_text"}
      [] op = "create_event"     -> {"title", "start_date", "end_date"}
      [] op = "open_event"       -> {"event_id"}
      [] op = "search_locations" -> {"query"}
      [] op = "save_location"    -> {"name", "address"}
      [] op = "drop_pin"         -> {"name", "address"}
      [] op = "get_directions"   -> {"from_address", "to_address"}
      [] op = "create_guide"     -> {"guide_name"}
      [] op = "add_to_guide"     -> {"address", "guide_name"}
      [] OTHER -> {}

\* a handler method called by other code with one of these parameters empty
EmptyRequired ==
    /\ call.via = "direct"
    /\ \E f \in HandlerRequired(call.op) : call.args[f] = <<>>

\* C5 as the specification states it: a handler operation called with an empty
\* required parameter makes no run_script call and returns a failure.
C5_HandlerValidates ==
    EmptyRequired =>
        /\ runCalls = 0
        /\ pc = "returned" => (ret.kind \in {"status", "locations"} /\ ~ret.success)

\* C5: a handler operation does not test its required parameters. Called with
\* an empty one, a handler operation that talks to an application still runs
\* check_app_access, and once access is granted and, for the calendar
\* operations, the dates parse, it hands its script, built from the empty
\* value, to run_script exactly once.
C5_HandlerDoesNotValidate ==
    (EmptyRequired /\ call.op \in BridgeOps) =>
        /\ probeCalls = 1
        /\ (access = "granted"
            /\ ~(call.op \in CalendarOps /\ CalendarStops(call.op, call.args))) =>
              /\ runCalls = 1
              /\ payload.op = call.op
              /\ payload.literals = Literals(call.op, call.args)
        /\ (pc = "returned" /\ runCalls = 1) => ret.kind # "none"

C5_Witness ==
    /\ call.via = "direct" /\ call.op = "create_event"
    /\ call.args.title = <<>>
    /\ pc = "returned" /\ runCalls = 1
    /\ ret.kind = "status" /\ ret.success

\* the parameters a tool operation requires
ToolRequired(tool, operation) ==
    CASE tool = "notes" /\ operation = "search"       -> {"search_text"}
      [] tool = "notes" /\ operation = "create"       -> {"title", "body"}
      [] tool = "messages" /\ operation = "send"      -> {"phone_number", "message"}
      [] tool = "messages" /\ operation = "read"      -> {"phone_number"}
      [] tool = "messages" /\ operation = "schedule"  ->
           {"phone_number", "message", "scheduled_time"}
      [] tool = "mail" /\ operation = "search"        -> {"search_term"}
      [] tool = "mail" /\ operation = "send"          -> {"to", "subject", "body"}
      [] tool = "reminders" /\ operation = "search"   -> {"search_text"}
      [] tool = "reminders" /\ operation = "create"   -> {"name"}
      [] tool = "reminders" /\ operation = "open"     -> {"search_text"}
      [] tool = "calendar" /\ operation = "search"    -> {"search_text"}
      [] tool = "calendar" /\ operation = "create"    -> {"title", "start_date", "end_date"}
      [] tool = "calendar" /\ operation = "open"      -> {"event_id"}
      [] tool = "maps" /\ operation = "search"        -> {"query"}
      [] tool = "maps" /\ operation \in {"save", "pin"} -> {"name", "address"}
      [] tool = "maps" /\ operation = "directions"    -> {"from_address", "to_address"}
      [] tool = "maps" /\ operation = "createGuide"   -> {"guide_name"}
      [] tool = "maps" /\ operation = "addToGuide"    -> {"address", "guide_name"}
      [] OTHER -> {}

\* C6: a tool operation called with a required parameter that is None or empty
\* answers with a validation message; no handler method has been called and no
\* osascript has been started, for the probe or for a script.
C6_ToolValidates ==
    (call.via = "tool"
     /\ \E f \in ToolRequired(call.tool, call.operation) : call.targs[f] \in {None, <<>>}) =>
        /\ pc = "returned"
        /\ reply.kind = "validation"
        /\ reply.text # <<>>
        /\ handlerCalls = 0
        /\ probeCalls = 0
        /\ runCalls = 0
        /\ children = <<>>
        /\ child = "none"
        /\ ret = NoRet

C6_Witness ==
    /\ call.via = "tool" /\ call.tool = "notes" /\ call.operation = "create"
    /\ call.targs.title = <<>> /\ call.targs.body = <<"a">>
    /\ pc = "returned" /\ reply.kind = "validation" /\ handlerCalls = 0

\* the backslashes that stand right before position i of t
RECURSIVE BackslashesBefore(_, _)
BackslashesBefore(t, i) ==
    IF i > 1 /\ t[i - 1] = Backslash THEN 1 + BackslashesBefore(t, i - 1) ELSE 0

\* a quote of t that ends the literal t stands in
HasUnescapedQuote(t) ==
    \E i \in 1..Len(t) : t[i] = Quote /\ BackslashesBefore(t, i) % 2 = 0

\* C7: in the script a handler hands to run_script, no quoted literal that holds
\* a parameter of the caller contains a quote that is not escaped.
C7_QuotesEscaped ==
    \A i \in 1..Len(payload.literals) : ~HasUnescapedQuote(payload.literals[i].text)

\* what a caller reads of a decoded record, field by field
FieldsOf(op, e) ==
    CASE op \in NotesOps    -> <<e.title, e.content>>
      [] op \in MessagesOps -> <<e.sender, e.content, e.time>>
      [] op \in MailOps     -> <<e.sender, e.subject, e.date, e.content>>
      [] op \in CalendarOps -> <<e.title, e.location, e.notes, e.start_date, e.end_date,
                                 e.calendar_name, e.id>>

NoDelimiters(recs) ==
    \A i \in 1..Len(recs) : \A k \in 1..Len(recs[i]) :
        ~Contains(recs[i][k], FieldSep) /\ ~Contains(recs[i][k], RecordSep)

\* C8 as the specification states it: records without '|' and ';' in their
\* fields come back from the blob as they went in, in order, every field
\* unchanged.
C8_RoundTripExact ==
    (pc = "decoded" /\ NoDelimiters(records)) =>
        /\ ret.kind = "list"
        /\ Len(ret.items) = Len(records)
        /\ \A i \in 1..Len(records) : FieldsOf(call.op, ret.items[i]) = records[i]

\* the fields of a record as the handlers hand them on
AsReturned(op, rec) ==
    [k \in 1..Len(rec) |->
        IF op \in MailOps /\ k = 4 /\ Len(rec[k]) > 200
        THEN SubSeq(rec[k], 1, 200) \o <<"...">>
        ELSE IF op \in CalendarOps /\ k = 2 /\ rec[k] = <<>>
        THEN <<"Not specified">>
        ELSE rec[k]]

\* C8: records without '|' and ';' in their fields, the first of which does
\* not begin with "Error:", come back from the blob in order and with every
\* field unchanged, except that the content of an email longer than 200
\* characters comes back as its first 200 characters and "...", and the empty
\* location of an event as "Not specified"; a blob that begins with "Error:"
\* comes back as no records.
C8_RoundTrip ==
    (pc = "decoded" /\ NoDelimiters(records)) =>
        /\ ret.kind = "list"
        /\ StartsWith(records[1][1], ErrorPrefix) => ret.items = <<>>
        /\ ~StartsWith(records[1][1], ErrorPrefix) =>
              /\ Len(ret.items) = Len(records)
              /\ \A i \in 1..Len(records) :
                    FieldsOf(call.op, ret.items[i]) = AsReturned(call.op, records[i])

C8_Witness ==
    /\ pc = "decoded" /\ NoDelimiters(records)
    /\ call.op = "search_events"
    /\ Len(records) = 2 /\ Len(ret.items) = 2
    /\ records[2][2] = <<>>
    /\ ret.items[2].location = <<"Not specified">>
    /\ ret.items[1].location = <<"x">>

\* the operations that return a collection read from the output of a script
ListingOps == {"find_number", "get_all_numbers", "search_notes", "list_notes",
               "read_messages", "get_unread_emails", "search_emails", "list_mailboxes",
               "list_accounts", "search_events", "get_events"}

\* a listing operation has returned after a script that printed "Error:..."
ErrorOutput ==
    /\ call.op \in ListingOps
    /\ pc = "returned" /\ runCalls = 1
    /\ runResult.success
    /\ StartsWith(runResult.result, ErrorPrefix)

\* the output after "Error:"
Remainder == SubSeq(runResult.result, Len(ErrorPrefix) + 1, Len(runResult.result))

\* C9 as the specification states it: the listing operation returns no records
\* and the caller gets the text after "Error:" as the error message, in the
\* returned value or in the reply of the tool.
C9_ErrorSurfaced ==
    ErrorOutput =>
        /\ ret.kind \in {"list", "dict"} => ret.items = <<>>
        /\ \/ (ret.kind \in {"status", "locations"} /\ ret.message = Remainder)
           \/ (call.via = "tool" /\ Contains(reply.text, Remainder))

\* C9: when run_script succeeds and its output begins with "Error:", a listing
\* operation returns the empty collection; the whole output, "Error:" included,
\* goes to the error log after the handler's tag, and neither the returned
\* value nor the reply of the tool carries it.
C9_ErrorLogged ==
    ErrorOutput =>
        /\ ret.kind \in {"list", "dict"}
        /\ ret.items = <<>>
        /\ log # <<>>
        /\ LET e == log[Len(log)]
               n == Len(runResult.result)
           IN  /\ Len(e) > n
               /\ SubSeq(e, Len(e) - n + 1, Len(e)) = runResult.result
        /\ call.via = "tool" =>
              (reply.kind = "result" /\ ~Contains(reply.text, Remainder))

C9_Witness ==
    /\ ErrorOutput
    /\ call.op = "search_notes" /\ call.via = "tool"
    /\ Contains(runResult.result, FieldSep)
    /\ ret.items = <<>>
    /\ log = <<<<"Notes error: ">> \o runResult.result>>

\* the operations that report with a "Success:" or "Error:" line
SentinelOps == {"create_note", "send_message", "send_email", "create_event", "open_event",
                "search_locations", "save_location", "drop_pin", "get_directions"}

\* C10: an operation that reports through a sentinel returns success = True
\* exactly when run_script succeeded for its script and the output begins with
\* "Success:"; when the output begins with anything else it returns
\* success = False and the output as its message.
C10_SentinelSuccess ==
    (call.op \in SentinelOps /\ pc = "returned") =>
        /\ ret.kind \in {"status", "locations"}
        /\ ret.success <=>
              (runCalls = 1 /\ runResult.success
               /\ StartsWith(runResult.result, SuccessPrefix))
        /\ (runCalls = 1 /\ runResult.success /\ runResult.result # <<>>
            /\ ~StartsWith(runResult.result, SuccessPrefix)) =>
              (~ret.success /\ ret.message = runResult.result)

C10_Witness ==
    /\ call.op = "get_directions" /\ pc = "returned" /\ runCalls = 1
    /\ runResult.success
    /\ runResult.result = <<"n", "o", "p", "e">>
    /\ ~ret.success /\ ret.message = runResult.result

\* a handler has returned after run_script failed for its script
RunnerFailed ==
    /\ call.op \in BridgeOps
    /\ pc = "returned" /\ runCalls = 1
    /\ ~runResult.success

\* t ends with the text e and has more before it
EndsWith(t, e) ==
    Len(t) > Len(e) /\ SubSeq(t, Len(t) - Len(e) + 1, Len(t)) = e

\* C11 as the specification states it: when run_script fails for the script
\* of a handler operation, what the caller gets, the returned value or the
\* reply of the tool, is a failure that carries the error of run_script.
C11_ErrorCarried ==
    RunnerFailed =>
        \/ (ret.kind \in {"status", "locations"} /\ ~ret.success
            /\ Contains(ret.message, runResult.error))
        \/ (call.via = "tool" /\ Contains(reply.text, runResult.error))

\* C11: when run_script fails for the script of a handler operation, an
\* operation that returns {success, message} returns success = False and
\* "Failed to ...: " followed by the error of run_script; an operation that
\* returns a list, a dict or a count returns the empty collection or 0, writes
\* "Failed to ...: " and the error to the error log, and hands no error text to
\* its caller.
C11_ErrorCarriedOrLogged ==
    RunnerFailed =>
        /\ runResult.error # None
        /\ log # <<>> /\ EndsWith(log[Len(log)], runResult.error)
        /\ call.op \in SentinelOps =>
              /\ ret.kind \in {"status", "locations"}
              /\ ~ret.success
              /\ EndsWith(ret.message, runResult.error)
              /\ ret.message = log[Len(log)]
        /\ call.op \notin SentinelOps =>
              /\ ret.kind \in {"list", "dict", "int"}
              /\ ret.kind \in {"list", "dict"} => ret.items = <<>>
              /\ ret.kind = "int" => ret.value = 0
              /\ call.via = "tool" => ~Contains(reply.text, runResult.error)

C11_Witness ==
    /\ RunnerFailed
    /\ call.op = "send_email"
    /\ LastChild.stderr = <<"e", "r", "r", "\n">>
    /\ ret.message = <<"Failed to send email: ">> \o runResult.error

\* C12: list_guides, create_guide, add_to_guide and schedule_message return
\* success = False with their not-supported message for every input, and have
\* called neither check_app_access nor run_script.
C12_UnsupportedFail ==
    (call.op \in StubOps /\ pc = "returned") =>
        /\ ret.kind = "status"
        /\ ~ret.success
        /\ ret.message # <<>>
        /\ probeCalls = 0
        /\ runCalls = 0
        /\ children = <<>>

\* the same for the three of them that do return success = False
C12_UnsupportedButListGuides ==
    (call.op \in StubOps \ {"list_guides"} /\ pc = "returned") =>
        /\ ret.kind = "status"
        /\ ~ret.success
        /\ probeCalls = 0
        /\ runCalls = 0
        /\ children = <<>>

\* the operation names the docstring of the reminders tool gives
RemindersDocumented == {"list", "search", "open", "create", "listById"}

\* C19: no operation name that the reminders tool documents ('list', 'search',
\* 'open', 'create', 'listById') gets the "Unknown operation" reply; a call with
\* its required parameters given reaches a method of the reminders handler.
C19_DocumentedDispatched ==
    (call.via = "tool" /\ call.tool = "reminders"
     /\ call.operation \in RemindersDocumented) =>
        /\ reply.kind # "unknown"
        /\ (\A f \in ToolRequired(call.tool, call.operation) : Truthy(call.targs[f]))
              => (handlerCalls = 1 /\ call.op \in RemindersOps)

\* some field of the record holds the delimiter
HasDelimiter(rec, sep) == \E k \in 1..Len(rec) : Contains(rec[k], sep)

\* the record comes back among the decoded ones as it went in
ComesBack(rec) ==
    /\ ret.kind = "list"
    /\ \E j \in 1..Len(ret.items) : FieldsOf(call.op, ret.items[j]) = rec

\* C20 as the specification states it: a record with '|' or ';' in a field, in
\* whatever position, does not come back from the blob as it went in.
C20_DelimiterCorrupts ==
    pc = "decoded" =>
        \A i \in 1..Len(records) :
            (HasDelimiter(records[i], FieldSep) \/ HasDelimiter(records[i], RecordSep))
                => ~ComesBack(records[i])

\* C20: a record with ';' in any field, or with '|' in any field but the last,
\* does not come back from the blob as it went in; a '|' in the last field is
\* kept, because the decoder splits a chunk at most once per field boundary, so
\* a single record whose only delimiter is there comes back unchanged.
C20_DelimiterCorruptsButLast ==
    pc = "decoded" =>
        /\ \A i \in 1..Len(records) :
              (\/ HasDelimiter(records[i], RecordSep)
               \/ \E k \in 1..(Len(records[i]) - 1) : Contains(records[i][k], FieldSep))
                  => ~ComesBack(records[i])
        /\ (Len(records) = 1
            /\ Contains(records[1][Len(records[1])], FieldSep)) =>
              (ret.kind = "list" /\ Len(ret.items) = 1
               /\ FieldsOf(call.op, ret.items[1]) = records[1])

C20_Witness ==
    /\ pc = "decoded" /\ call.op = "read_messages"
    /\ Len(records) = 2
    /\ records[1][2] = <<"a", "|">>
    /\ records[2][3] = <<"a", "|">>
    /\ ~ComesBack(records[1])
    /\ ComesBack(records[2])

\* a web search has run to its end and returned
WebRan ==
    /\ call.op = "search_web" /\ pc = "returned"
    /\ ret.kind = "web"
    /\ ret.error # AlreadyRunning

\* the links of the page that the search works on
Worked ==
    1..(IF Len(backend.anchors) < call.args.max_results
        THEN Len(backend.anchors) ELSE call.args.max_results)

BadUrl(a) == UrlScheme(a.href) = "" \/ UrlNetloc(a.href) = ""

FetchFails(a) == BadUrl(a) \/ a.page.status # "ok"

\* C14 as the specification states it: a result whose page cannot be fetched
\* is left out of the results, and the search still returns success = True.
C14_FailedFetchSkipped ==
    (WebRan /\ backend.search = "ok") =>
        /\ ret.success
        /\ \A i \in Worked : FetchFails(backend.anchors[i]) =>
              \A j \in 1..Len(ret.results) : ret.results[j].url # backend.anchors[i].href

\* C14: a failure while the page of one result is fetched does not abort the
\* search and does not drop the result: the search returns success = True with
\* one result per link it worked on, in page order, and the result whose fetch
\* failed stands in its place with the content "Content not available" (HTTP
\* error, timeout) or "Invalid URL" (an href without scheme or host).
C14_FailedFetchKept ==
    (WebRan /\ backend.search = "ok") =>
        /\ ret.success
        /\ ret.error = None
        /\ DOMAIN ret.results = Worked
        /\ \A i \in Worked :
              LET a == backend.anchors[i]
              IN  /\ ret.results[i].url = a.href
                  /\ BadUrl(a) => ret.results[i].content = <<"Invalid URL">>
                  /\ (~BadUrl(a) /\ a.page.status # "ok") =>
                        ret.results[i].content = <<"Content not available">>

C14_Witness ==
    /\ WebRan /\ backend.search = "ok"
    /\ Len(backend.anchors) = 2 /\ call.args.max_results = 5
    /\ backend.anchors[1].page.status = "HTTPStatusError"
    /\ backend.anchors[2].page.status = "ok"
    /\ ret.success /\ Len(ret.results) = 2
    /\ ret.results[1].content = <<"Content not available">>

\* every anchor of the page has its snippet container
AllSnippets == \A i \in 1..Len(backend.anchors) : backend.anchors[i].snippet # None

\* C15: when the page of the backend holds N result anchors with their snippet
\* containers, search_web returns min(N, max_results) results, in page order,
\* each with the text of its anchor as title, its href as url and the text of
\* its snippet container as snippet.
C15_ResultsInPageOrder ==
    (WebRan /\ backend.search = "ok" /\ AllSnippets) =>
        /\ ret.success
        /\ Len(ret.results) = (IF Len(backend.anchors) < call.args.max_results
                               THEN Len(backend.anchors) ELSE call.args.max_results)
        /\ \A i \in 1..Len(ret.results) :
              /\ IsTrimOf(ret.results[i].title, backend.anchors[i].title)
              /\ ret.results[i].url = backend.anchors[i].href
              /\ IsTrimOf(ret.results[i].snippet, backend.anchors[i].snippet)

C15_Witness ==
    /\ WebRan /\ backend.search = "ok" /\ AllSnippets
    /\ Len(backend.anchors) = 2 /\ call.args.max_results = 1
    /\ Len(ret.results) = 1
    /\ ret.results[1].title = <<"1">>
    /\ backend.anchors[2].title = <<"2">>

\* the text _extract_page_content makes of a page that was fetched
PageText(a) == CleanText(a.page.text)

\* C16 as the specification states it: the content of a result is never
\* longer than 500 characters, and is the whole page text when that is no
\* longer than 500.
C16_ContentWithinPreview ==
    (WebRan /\ backend.search = "ok") =>
        \A i \in 1..Len(ret.results) :
            /\ Len(ret.results[i].content) <= 500
            /\ (~FetchFails(backend.anchors[i]) /\ Len(PageText(backend.anchors[i])) <= 500)
                  => ret.results[i].content = PageText(backend.anchors[i])

\* C16: the content of a result is the whole page text when that is no longer
\* than 500 characters; a longer text is cut to its first 500 characters and
\* "..." is added, so the content is then 503 characters long.
C16_ContentPreview ==
    (WebRan /\ backend.search = "ok") =>
        \A i \in 1..Len(ret.results) :
            ~FetchFails(backend.anchors[i]) =>
                LET t == PageText(backend.anchors[i])
                    c == ret.results[i].content
                IN  /\ Len(t) <= 500 => c = t
                    /\ Len(t) > 500 =>
                          /\ Len(c) = 503
                          /\ SubSeq(c, 1, 500) = SubSeq(t, 1, 500)
                          /\ SubSeq(c, 501, 503) = <<".", ".", ".">>

C16_Witness ==
    /\ WebRan /\ backend.search = "ok"
    /\ Len(ret.results) = 2
    /\ Len(PageText(backend.anchors[1])) = 501
    /\ Len(ret.results[1].content) = 503
    /\ Len(PageText(backend.anchors[2])) = 500
    /\ Len(ret.results[2].content) = 500

\* C17: search_web_sync returns what the coroutine search_web returns for the
\* same query, max_results and answers of the backend, whatever event loop the
\* calling thread has: none, a closed one, an idle one, a running one.
C17_SyncSameAsAsync ==
    (call.op = "search_web" /\ call.via = "sync" /\ pc = "returned") =>
        ret = SearchWeb(call.args.max_results, backend)

\* the same for a calling thread whose event loop is not running
C17_SyncSameUnlessRunning ==
    (call.op = "search_web" /\ pc = "returned"
     /\ (call.via = "async" \/ loop # "running")) =>
        ret = SearchWeb(call.args.max_results, backend)

\* C13: no handler operation lets an exception reach its caller: whatever
\* the input and whatever run_script or the HTTP requests answer, a call that
\* has returned has returned {success, message}, a collection or a count, and
\* the tool's except clause has not had to answer.
C13_NoException ==
    (pc = "returned" /\ call.op # "none") =>
        /\ ret.kind \in {"status", "locations", "list", "dict", "int", "web"}
        /\ ret.kind \in {"status", "locations", "web"} => ret.success \in BOOLEAN
        /\ ret.kind = "web" => (~ret.success => ret.results = <<>>)
        /\ ret.kind = "int" => ret.value \in Int
        /\ (call.op \in BridgeOps /\ runCalls >= 1 /\ ~runResult.success) =>
              \/ ret.kind \in {"status", "locations"} /\ ~ret.success
              \/ ret.kind \in {"list", "dict"} /\ ret.items = <<>>
              \/ ret = IntRet(0)
        /\ reply.kind # "error"

C13_Witness ==
    /\ call.op = "get_unread_count" /\ pc = "returned" /\ runCalls = 1
    /\ runResult.success
    /\ runResult.result = <<"n", "o", "p", "e">>
    /\ ret = IntRet(0)
    /\ log = <<<<"Invalid unread count: ">> \o runResult.result>>

ShapedOps == {"read_messages", "get_unread_emails", "search_emails", "search_events",
              "get_events"}

\* the number of "|" in a chunk
Delimiters(e) == Cardinality({i \in 1..Len(e) : e[i] = "|"})

\* the chunks of a blob that hold all n fields of a record, in blob order
FullChunks(data, n) ==
    SelectSeq(Split(data, RecordSep), LAMBDA e : Delimiters(e) >= n - 1)

\* a shaped operation has returned after a script that printed records
Decoded ==
    /\ call.op \in ShapedOps
    /\ pc = "returned" /\ runCalls = 1
    /\ HasOutput(runResult) /\ ~StartsWith(runResult.result, ErrorPrefix)

\* C21: a chunk with fewer fields than the record shape (3 for messages, 4
\* for emails, 7 for events), a chunk without "|" and an empty chunk give no
\* record and no error; the other chunks of the blob are decoded, in order.
C21_ShortChunkDropped ==
    Decoded =>
        LET full == FullChunks(runResult.result, FieldCount(call.op))
        IN  /\ ret.kind = "list"
            /\ log = <<>>
            /\ Len(ret.items) = Len(full)
            /\ \A i \in 1..Len(full) :
                  FieldsOf(call.op, ret.items[i])[1] = SplitN(full[i], FieldSep, 1)[1]

C21_Witness ==
    /\ Decoded /\ call.op = "get_unread_emails"
    /\ Len(Split(runResult.result, RecordSep)) = 5
    /\ Len(ret.items) = 2
    /\ ret.items[1].sender = <<"d">> /\ ret.items[2].sender = <<"h">>

\* the child processes of this call that are alive
Alive ==
    (IF child = "running" THEN 1 ELSE 0)
    + Cardinality({i \in 1..Len(children) : children[i].state = "running"})

\* C22: within one call the child processes follow one another: the child of
\* the access check has finished before the payload is started, at most one
\* child is alive at any moment, and the call returns only when every child
\* it started has exited, was killed at the timeout or could not be started.
C22_OneChildAtATime ==
    /\ Alive <= 1
    /\ pc = "payload" =>
          /\ probeCalls = 1 /\ runCalls = 1
          /\ Len(children) = 1 /\ children[1].state = "exited"
          /\ access = "granted"
    /\ pc = "check" => (children = <<>> /\ runCalls = 0)
    /\ pc = "returned" =>
          /\ child = "none"
          /\ Len(children) = probeCalls + runCalls
          /\ \A i \in 1..Len(children) :
                children[i].state \in {"exited", "killed", "unstarted"}

C22_Witness ==
    /\ call.op = "search_notes" /\ pc = "returned"
    /\ Len(children) = 2
    /\ children[1].state = "exited" /\ children[2].state = "killed"

WindowOps == {"search_events", "get_events"}

\* a payload of search_events or get_events has been handed to run_script
WindowSent == payload.op \in WindowOps /\ pc \in {"payload", "returned"}

\* YYYY-MM-DD... written as MM/DD/YYYY
UsDate(s) == SubSeq(s, 6, 7) \o <<"/">> \o SubSeq(s, 9, 10) \o <<"/">> \o SubSeq(s, 1, 4)

EndOfDay == <<" 11:59:59 PM">>

\* C23: without a date range the window of the payload starts on the present
\* day (2025-01-05 here) and ends 30 days later for search_events, 1 day later
\* for get_events; a from_date or to_date of the caller takes the place of the
\* default on its side of the window.
C23_DefaultWindow ==
    WindowSent =>
        /\ payload.window.start =
              IF Truthy(call.args.from_date) THEN UsDate(call.args.from_date)
              ELSE <<"0", "1", "/", "0", "5", "/", "2", "0", "2", "5">>
        /\ payload.window.end =
              (IF Truthy(call.args.to_date) THEN UsDate(call.args.to_date)
               ELSE IF call.op = "search_events"
                    THEN <<"0", "2", "/", "0", "4", "/", "2", "0", "2", "5">>
                    ELSE <<"0", "1", "/", "0", "6", "/", "2", "0", "2", "5">>) \o EndOfDay

C23_Witness ==
    /\ WindowSent /\ call.via = "direct" /\ call.op = "search_events"
    /\ call.args.from_date = None /\ call.args.to_date = None
    /\ payload.window.end = <<"0", "2", "/", "0", "4", "/", "2", "0", "2", "5">> \o EndOfDay

\* the day of a date written MM/DD/YYYY, as a number that orders the days
DayNumber(t) ==
    Unsigned(SubSeq(t, 7, 10)) * 10000 + Unsigned(SubSeq(t, 1, 2)) * 100
    + Unsigned(SubSeq(t, 4, 5))

\* C26: every payload of search_events and get_events holds a window whose
\* start date is not after its end date, whichever of from_date and to_date
\* the caller gave.
C26_WindowOrdered ==
    WindowSent => DayNumber(payload.window.start) <= DayNumber(payload.window.end)

\* the window is in order when the caller gives no from_date and no to_date
C26_DefaultWindowOrdered ==
    (WindowSent /\ ~Truthy(call.args.from_date) /\ ~Truthy(call.args.to_date))
        => DayNumber(payload.window.start) <= DayNumber(payload.window.end)

\* a web search has returned
WebReturned == call.op = "search_web" /\ pc = "returned"

FetchedUrls ==
    LET ok == SelectSeq(ret.results, LAMBDA r : UrlScheme(r.url) # "" /\ UrlNetloc(r.url) # "")
    IN  [i \in 1..Len(ok) |-> ok[i].url]

EmptyOutput ==
    /\ call.op \in ListingOps \cup SentinelOps \cup {"get_unread_count"}
    /\ pc = "returned" /\ runCalls = 1
    /\ runResult.success /\ runResult.result = <<>>

\* C25: run_script succeeding with an empty output is handled as a failure of
\* run_script whose error is None: a listing operation returns its empty
\* collection, get_unread_count returns 0, and a sentinel operation returns
\* success = False with its "Failed to ...: " message ending in "None"; the
\* same line goes to the error log.
C25_EmptyOutputAsFailure ==
    EmptyOutput =>
        /\ runResult.error = None
        /\ ret = Parse(call.op, call.args, ScriptResult(FALSE, None, None)).ret
        /\ Len(log) = 1 /\ Len(log[1]) = 2 /\ log[1][2] = "None"
        /\ call.op \in ListingOps =>
              ret.kind \in {"list", "dict"} /\ ret.items = <<>>
        /\ call.op = "get_unread_count" => ret = IntRet(0)
        /\ call.op \in SentinelOps =>
              /\ ~ret.success
              /\ ret.message = log[1]
              /\ call.op = "search_locations" => ret.locations = <<>>

C25_Witness ==
    /\ EmptyOutput /\ call.op = "create_note"
    /\ LastChild.stdout = <<" ", "\n">>
    /\ ret = StatusRet(FALSE, <<"Failed to create note: ", "None">>)

\* a script of search_emails or list_mailboxes has been handed to run_script
TargetSent == payload.op \in {"search_emails", "list_mailboxes"} /\ pc \in {"payload", "returned"}

\* the text the script compares with "" in 'if "{account}" is not ""'
TestedAccount == IF payload.op = "search_emails" THEN payload.literals[2].text
                 ELSE payload.literals[1].text

\* the text of 'and "{mailbox}" is not ""', which list_mailboxes has not
TestedMailbox == IF payload.op = "search_emails" THEN payload.literals[3].text ELSE <<>>

\* the branch of its if the script takes when it runs
ScriptBranch ==
    IF TestedAccount # <<>> /\ TestedMailbox # <<>> THEN "mailbox of account"
    ELSE IF TestedAccount # <<>> THEN "account"
    ELSE "all accounts"

\* the branch the target clause of the Python side is written for
ClauseBranch ==
    IF call.op = "search_emails" /\ Truthy(call.args.account) /\ Truthy(call.args.mailbox)
    THEN "mailbox of account"
    ELSE IF Truthy(call.args.account) THEN "account"
    ELSE "all accounts"

\* C27: the branch the script of search_emails and list_mailboxes takes is the
\* one its target clause was chosen for; it is the all-accounts branch exactly
\* when the caller gave no account (None or the empty string).
C27_BranchAgrees ==
    TargetSent =>
        /\ ScriptBranch = ClauseBranch
        /\ ScriptBranch = "all accounts" <=> ~Truthy(call.args.account)

\* the branches agree when account and mailbox are strings, empty or not
C27_BranchAgreesForStrings ==
    (TargetSent /\ call.args.account # None
        /\ (call.op = "search_emails" => call.args.mailbox # None))
        => ScriptBranch = ClauseBranch

\* the operation names a tool has a branch for
Dispatched(tool) ==
    CASE tool = "notes"     -> {"search", "list", "create"}
      [] tool = "messages"  -> {"send", "read", "schedule", "unread"}
      [] tool = "mail"      -> {"unread", "search", "send", "mailboxes", "accounts"}
      [] tool = "reminders" -> {"list", "search", "create", "open"}
      [] tool = "calendar"  -> {"search", "list", "create", "open"}
      [] tool = "maps"      -> {"search", "save", "pin", "directions", "listGuides",
                                "createGuide", "addToGuide"}

\* a tool has been called with an operation name it has no branch for
UndispatchedCall ==
    /\ call.via = "tool"
    /\ call.tool \in {"notes", "messages", "mail", "reminders", "calendar", "maps"}
    /\ call.operation \notin Dispatched(call.tool)

\* C28: a tool called with an operation name it has no branch for answers
\* "Unknown operation: <name>. Valid operations are: ..." at once: no handler
\* method is called, check_app_access and run_script are not called and no
\* child process is started.
C28_UnknownCallsNothing ==
    UndispatchedCall =>
        /\ pc = "returned"
        /\ reply.kind = "unknown"
        /\ Len(reply.text) = 4
        /\ reply.text[1] = "Unknown operation: " /\ reply.text[2] = call.operation
        /\ reply.text[3] = ". Valid operations are: "
        /\ handlerCalls = 0 /\ probeCalls = 0 /\ runCalls = 0
        /\ child = "none" /\ children = <<>>
        /\ ret = NoRet /\ log = <<>>

C28_Witness ==
    /\ UndispatchedCall /\ call.tool = "maps" /\ call.operation = "bogus"
    /\ pc = "returned" /\ reply.kind = "unknown"
    /\ handlerCalls = 0


\* update_claude_config returns in this step
Updating == pc = "update" /\ pc' = "returned"

\* the file the call was given, before and after
FileBefore == disk.files[call.args.config_path]

FileAfter == disk'.files[call.args.config_path]

\* the file exists and holds a JSON object
HoldsObject(file) == file.kind = "json" /\ file.value.t = "obj"

\* every top-level key but mcpServers and every server but pyapple is as it was
OthersAsBefore(before, after) ==
    /\ \A k \in Keys(before) \ {"mcpServers"} : Has(after, k) /\ Get(after, k) = Get(before, k)
    /\ Keys(after) = Keys(before) \cup {"mcpServers"}
    /\ Get(after, "mcpServers").t = "obj"
    /\ LET was == IF Has(before, "mcpServers") /\ Get(before, "mcpServers").t = "obj"
                  THEN Get(before, "mcpServers") ELSE JObj(<<>>)
           now == Get(after, "mcpServers")
       IN  /\ \A n \in Keys(was) \ {ServerKey} : Has(now, n) /\ Get(now, n) = Get(was, n)
           /\ Keys(now) = Keys(was) \cup {ServerKey}

\* mcpServers.pyapple.command is the path given
PyappleSet(after) ==
    /\ Has(Get(after, "mcpServers"), ServerKey)
    /\ Get(Get(after, "mcpServers"), ServerKey) = PyappleEntry(call.args.exe)

\* C29: on a config file that exists, holds a JSON object and can be written,
\* update_claude_config keeps every other top-level key and every other server
\* and sets mcpServers.pyapple.command to the path given
C29_OnlyPyappleChanged ==
    [][(Updating /\ HoldsObject(FileBefore) /\ disk.writable)
         => /\ HoldsObject(FileAfter)
            /\ OthersAsBefore(Load(FileBefore.value), FileAfter.value)
            /\ PyappleSet(FileAfter.value)]_vars

\* C29: update_claude_config leaves the other file alone, and the file it was
\* given is either left as it was or holds every other key and server as
\* before with mcpServers.pyapple.command set to the path given
C29_OthersKept ==
    [][Updating
         => /\ \A p \in ConfigPaths \ {call.args.config_path} : disk'.files[p] = disk.files[p]
            /\ \/ FileAfter = FileBefore
               \/ /\ HoldsObject(FileAfter)
                  /\ OthersAsBefore(IF FileBefore.kind = "json" THEN Load(FileBefore.value)
                                    ELSE JObj(<<>>), FileAfter.value)
                  /\ PyappleSet(FileAfter.value)]_vars

\* the setup ran with the default paths and ended with exit code 0
SetupSucceeded ==
    /\ Updating
    /\ call.op = "main"
    /\ call.args.arg = "none"
    /\ ret' = ExitCode(0)

\* C30: after a setup with the default paths that ends with exit code 0, the
\* self-test's test_claude_config accepts the config
C30_SelfTestAccepts == [][SetupSucceeded => TestClaudeConfig(disk'.files)]_vars

\* C30: the setup never changes what test_claude_config answers
C30_SetupLeavesVerdict ==
    [][SetupSucceeded => (TestClaudeConfig(disk'.files) <=> TestClaudeConfig(disk.files))]_vars

====
